---- MODULE Spec2Model ----
(***************************************************************************)
(* Wallet backends (KaiaWalletService) over browser-injected providers.    *)
(*                                                                         *)
(* Every `await` of the TypeScript source is a suspension point: a call    *)
(* that is suspended is a record in tasks[k], and the step that resumes it *)
(* draws the provider's answer from a small set.  Steps of different calls *)
(* on one backend interleave freely at these points, as they do on the     *)
(* JavaScript event loop.  The WalletAdapter holds one backend per kind,    *)
(* a reference to the current one, and its own suspended call.             *)
(***************************************************************************)
EXTENDS Integers, Sequences, FiniteSets, TLC

VARIABLES
    window,        \* the browser globals the backends probe
    state,         \* state[k]: the WalletState of backend k
    web3Provider,  \* web3Provider[k]: the Web3Provider handle, or Null
    tasks,         \* tasks[k]: the suspended calls of backend k, oldest first
    adapter,       \* the WalletAdapter: its current wallet, its suspended call
    last           \* what the step just taken did (call, result, events, requests)

vars == <<window, state, web3Provider, tasks, adapter, last>>

----------------------------------------------------------------------------
(* Bounds of the model *)

\* at most this many calls of one backend are suspended at a time
MaxTasks == 1

----------------------------------------------------------------------------
(* Values *)

\* `T | null`: Null, or Some(x)
Null == <<>>
Some(x) == <<x>>
Val(o) == o[1]

\* enum WalletConnectionStatus
DISCONNECTED == "disconnected"
CONNECTING == "connecting"
CONNECTED == "connected"
ERROR == "error"

\* enum WalletProvider
KAIKAS == "kaikas"
METAMASK == "metamask"
WALLET_CONNECT == "walletconnect"

\* the backends a registry constructs
Kinds == {KAIKAS, METAMASK}

\* KAIA_NETWORKS, in the order of Object.values
KAIA_NETWORKS ==
    << [chainId |-> 8217, name |-> "Kaia Mainnet",
        rpcUrl |-> "https://public-en.node.kaia.io",
        blockExplorerUrl |-> "https://kaiascan.io"],
       [chainId |-> 1001, name |-> "Kaia Testnet Kairos",
        rpcUrl |-> "https://public-en-kairos.node.kaia.io",
        blockExplorerUrl |-> "https://kairos.kaiascan.io"] >>

getNetworkByChainId_DefaultsToMainnet(chainId) ==
    LET hits == {i \in 1..Len(KAIA_NETWORKS) : KAIA_NETWORKS[i].chainId = chainId}
    IN  IF hits = {} THEN Some(KAIA_NETWORKS[1])
        ELSE Some(KAIA_NETWORKS[CHOOSE i \in hits : \A j \in hits : i <= j])

\* Object.values(KAIA_NETWORKS).find(n => n.chainId === chainId) || null
getNetworkByChainId(chainId) ==
    LET hits == {i \in 1..Len(KAIA_NETWORKS) : KAIA_NETWORKS[i].chainId = chainId}
    IN  IF hits = {} THEN Null
        ELSE Some(KAIA_NETWORKS[CHOOSE i \in hits : \A j \in hits : i <= j])

\* Error messages (the source's messages are Korean; the text here is a
\* rendering, one distinct string per distinct message of the source)
MsgNotInstalled(k) == k \o " wallet is not installed"  \* `${provider} 지갑이 설치되지 않았습니다.`
MsgNoAccount == "no account found"                      \* '계정을 찾을 수 없습니다.'
MsgNotConnected == "wallet is not connected"            \* '지갑이 연결되지 않았습니다.'
MsgBalanceFailed(m) == "balance query failed: " \o m    \* `잔액 조회 실패: ${message}`
MsgUnsupportedWallet(kind) == "unsupported wallet: " \o kind  \* `지원하지 않는 지갑입니다: ${provider}`
MsgUnavailable(kind) == kind \o " wallet cannot be used"      \* `${provider} 지갑을 사용할 수 없습니다.`
\* the TypeError of a member call on this.web3Provider when it is null
MsgNullProvider == "Cannot read properties of null"
MsgTxFailed(m) == "transaction failed: " \o m          \* `트랜잭션 전송 실패: ${message}`
MsgSignFailed(m) == "message signing failed: " \o m    \* `메시지 서명 실패: ${message}`
\* `지원하지 않는 네트워크입니다: ${chainId}`
MsgUnsupportedNetwork(chainId) == "unsupported network: " \o ToString(chainId)
\* the ReferenceError of reading `window` where there is no such global
MsgWindowUndefined == "window is not defined"
\* the TypeError of provider.request(...) when window.klaytn / window.ethereum
\* is undefined
MsgUndefinedProvider == "Cannot read properties of undefined"

\* n.toString(16)
HexDigits ==
    <<"0", "1", "2", "3", "4", "5", "6", "7", "8", "9", "a", "b", "c", "d", "e", "f">>
RECURSIVE Hex(_)
Hex(n) == IF n < 16 THEN HexDigits[n + 1]
          ELSE Hex(n \div 16) \o HexDigits[(n % 16) + 1]

----------------------------------------------------------------------------
(* What the collaborators can answer (the injected provider, the RPC client) *)

\* listAccounts() yields strings or signer objects, depending on the client
StringAccount(a) == [isString |-> TRUE, str |-> a, address |-> ""]
SignerAccount(a) == [isString |-> FALSE, str |-> "", address |-> a]
AccountLists ==
    { <<>>, <<StringAccount("0xA")>>, <<SignerAccount("0xB"), StringAccount("0xA")>> }
\* what an accountsChanged notification carries (string[])
NotifiedLists == { <<>>, <<"0xB">> }
Balances == {1000}
ChainIds == {8217, 1}
NotifiedChains == {"0x3e9"}
MsgUserRejected == "User rejected the request."
MsgRpc == "rpc failure"
\* an answer of a collaborator: fulfilled with a value, or rejected with a message
Ok(v) == [ok |-> TRUE, value |-> v, message |-> ""]
Fail(m) == [ok |-> FALSE, value |-> 0, message |-> m]

\* a rejection of the injected provider: EIP-1193 errors carry a numeric code
ProviderError(code, m) == [ok |-> FALSE, value |-> 0, message |-> m, code |-> code]
\* the arguments callers pass: TransactionParams with and without a value,
\* a message to sign, a chain to switch to
TxParams == { [to |-> "0xC", value |-> Null, data |-> Null],
              [to |-> "0xC", value |-> Some("5"), data |-> Some("0x01")] }
Messages == {"hello"}
SwitchChains == {8217, 1001, 999999}
\* a submitted transaction, and the receipt tx.wait() resolves to
TxHashes == {"0xH"}
Receipts == { Some([blockNumber |-> Some(7), gasUsed |-> Some(21000)]), Null }
Signatures == {"0xSIG"}
MsgFunds == "insufficient funds"
MsgReverted == "transaction execution reverted"
MsgListener == "listener failed"
MsgUnknownChain == "Unrecognized chain ID"

\* the browser sessions: no window object at all (not a browser), nothing
\* injected, window.klaytn without the Kaikas marker, Kaikas alone, MetaMask alone
Window(defined, klaytn, ethereum) ==
    [defined |-> defined, klaytn |-> klaytn, ethereum |-> ethereum]
BrowserSessions ==
    { Window(FALSE, Null, Null),
      Window(TRUE, Null, Null),
      Window(TRUE, Some([isKaikas |-> FALSE]), Null),
      Window(TRUE, Some([isKaikas |-> TRUE]), Null),
      Window(TRUE, Null, Some([isMetaMask |-> TRUE])) }

----------------------------------------------------------------------------
(* KaiaWalletService: the synchronous pieces *)

\* the field initialiser of `state`, with the constructor's provider kind
InitialState(k) ==
    [status |-> DISCONNECTED, account |-> Null, network |-> Null,
     provider |-> Some(k), error |-> Null]

\* this.state = { ...this.state, ...updates }
updateState(s, updates) ==
    [f \in DOMAIN s |-> IF f \in DOMAIN updates THEN updates[f] ELSE s[f]]

isAvailable(k) ==
    IF ~window.defined THEN FALSE
    ELSE CASE k = KAIKAS -> window.klaytn # Null /\ Val(window.klaytn).isKaikas
           [] k = METAMASK -> window.ethereum # Null /\ Val(window.ethereum).isMetaMask
           [] OTHER -> FALSE

\* setupEventListeners runs once, in the constructor: the backend hears the
\* provider's native notifications iff it was available then
Listening(k) == isAvailable(k)

\* an event handed to EventEmitter.emit; the subscribed listeners are outside
\* the backend and are taken to return normally
Event(name, arg) == [name |-> name, arg |-> arg]

handleError_ClearsAccount(s, message) ==
    [state |-> updateState(s, [status |-> ERROR, error |-> Some(message),
                               account |-> Null, network |-> Null]),
     events |-> <<Event("error", message)>>,
     seen |-> <<updateState(s, [status |-> ERROR, error |-> Some(message),
                                account |-> Null, network |-> Null])>>]

handleError_NoMessage(s, message) ==
    [state |-> updateState(s, [status |-> ERROR]),
     events |-> <<Event("error", message)>>,
     seen |-> <<updateState(s, [status |-> ERROR])>>]

handleError_NoEmit(s, message) ==
    [state |-> updateState(s, [status |-> ERROR, error |-> Some(message)]),
     events |-> <<>>,
     seen |-> <<>>]

handleError_EmitsFirst(s, message) ==
    [state |-> updateState(s, [status |-> ERROR, error |-> Some(message)]),
     events |-> <<Event("error", message)>>,
     seen |-> <<s>>]

\* handleError: the new state, the events emitted, and for each of them the
\* state a listener's getState() returns while the event is emitted
handleError(s, message) ==
    LET updated == updateState(s, [status |-> ERROR, error |-> Some(message)])
    IN  [state |-> updated,
         events |-> <<Event("error", message)>>,
         seen |-> <<updated>>]

\* typeof accounts[0] === 'string' ? accounts[0] : accounts[0].address
AddressOf(a) == IF a.isString THEN a.str ELSE a.address

FirstAddress_Last(accounts) == AddressOf(accounts[Len(accounts)])

\* the address connect/getAccount/getBalance take from a non-empty list
FirstAddress(accounts) == AddressOf(accounts[1])


connectStart_EarlyUpdate(k, s, available) ==
    [started |-> available,
     state |-> updateState(s, [status |-> CONNECTING]),
     raised |-> IF available THEN Null ELSE Some(MsgNotInstalled(k))]

\* connect, up to its first await: the availability check, then CONNECTING
connectStart(k, s, available) ==
    IF ~available
    THEN [started |-> FALSE, state |-> s, raised |-> Some(MsgNotInstalled(k))]
    ELSE [started |-> TRUE, state |-> updateState(s, [status |-> CONNECTING]),
          raised |-> Null]

connectCatch_Rethrows(s, message) ==
    [state |-> s, events |-> <<>>, seen |-> <<>>, raised |-> Some(message)]

\* connect's catch block: handleError, then rethrow
connectCatch(s, message) ==
    LET h == handleError(s, message)
    IN  [state |-> h.state, events |-> h.events, seen |-> h.seen,
         raised |-> Some(message)]

\* connect's last statements: CONNECTED, emit, return
connectFinish(s, account, network) ==
    LET updated == updateState(s, [status |-> CONNECTED,
                                   account |-> Some(account),
                                   network |-> network, error |-> Null])
    IN  [state |-> updated,
         events |-> <<Event("connect", account)>>,
         seen |-> <<updated>>,
         ret |-> Some(account)]

disconnect_KeepsError(s) ==
    [state |-> updateState(s, [status |-> DISCONNECTED, account |-> Null,
                               network |-> Null]),
     web3Provider |-> Null,
     events |-> <<Event("disconnect", Null)>>,
     seen |-> <<updateState(s, [status |-> DISCONNECTED, account |-> Null,
                                network |-> Null])>>]

disconnect_KeepsProvider(s) ==
    [state |-> updateState(s, [status |-> DISCONNECTED, account |-> Null,
                               network |-> Null, error |-> Null]),
     web3Provider |-> Some(Val(s.provider)),
     events |-> <<Event("disconnect", Null)>>,
     seen |-> <<updateState(s, [status |-> DISCONNECTED, account |-> Null,
                                network |-> Null, error |-> Null])>>]

\* disconnect: it has no await, so it is one step
disconnect(s) ==
    LET updated == updateState(s, [status |-> DISCONNECTED, account |-> Null,
                                   network |-> Null, error |-> Null])
    IN  [state |-> updated,
         web3Provider |-> Null,
         events |-> <<Event("disconnect", Null)>>,
         seen |-> <<updated>>]

onAccountFetched_Unchecked(s, account) == updateState(s, [account |-> account])

\* the accountsChanged listener's then-callback: if (account) updateState({account})
onAccountFetched(s, account) ==
    IF account # Null THEN updateState(s, [account |-> account]) ELSE s

onNetworkFetched_ClearsError(s, network) ==
    updateState(s, [network |-> network, error |-> Null])

\* the chainChanged listener's then-callback: updateState({ network })
onNetworkFetched(s, network) == updateState(s, [network |-> network])

\* balance.toString(): the decimal string of the amount in the smallest unit
BalanceString(b) == ToString(b)

\* a request handed to a collaborator (the RPC client, its signer, the
\* injected provider), with its argument
Request(method, params) == [method |-> method, params |-> params]
\* the argument of a request that takes none
NoArgs == [args |-> <<>>]

sendTransactionStart_Unchecked(w) == [started |-> TRUE, raised |-> Null]

\* sendTransaction, up to its first await: the session check
sendTransactionStart(w) ==
    IF w = Null THEN [started |-> FALSE, raised |-> Some(MsgNotConnected)]
    ELSE [started |-> TRUE, raised |-> Null]

\* signMessage, up to its first await: the session check
signMessageStart(w) ==
    IF w = Null THEN [started |-> FALSE, raised |-> Some(MsgNotConnected)]
    ELSE [started |-> TRUE, raised |-> Null]

\* the txParams object sendTransaction hands to the signer
txParams(params) ==
    [to |-> params.to,
     value |-> IF params.value = Null \/ Val(params.value) = ""
               THEN "0" ELSE Val(params.value),
     data |-> IF params.data = Null \/ Val(params.data) = ""
              THEN "0x" ELSE Val(params.data)]

\* the TransactionResult built from tx and the receipt (receipt?.x)
TransactionResult(hash, receipt) ==
    [hash |-> hash,
     blockNumber |-> IF receipt = Null THEN Null ELSE Val(receipt).blockNumber,
     gasUsed |-> IF receipt = Null \/ Val(receipt).gasUsed = Null THEN Null
                 ELSE Some(ToString(Val(Val(receipt).gasUsed)))]

\* getProvider(): the injected object of the backend's kind (Null: undefined)
getProvider(k) ==
    CASE k = KAIKAS -> window.klaytn
      [] k = METAMASK -> window.ethereum

\* `0x${chainId.toString(16)}`
ChainIdHex(chainId) == "0x" \o Hex(chainId)

SwitchRequest(chainId) ==
    Request("wallet_switchEthereumChain", [chainId |-> ChainIdHex(chainId)])

\* the add-chain request, from the registry's entry for the chain
AddRequest(chainId, network) ==
    Request("wallet_addEthereumChain",
            [chainId |-> ChainIdHex(chainId), chainName |-> network.name,
             rpcUrls |-> <<network.rpcUrl>>,
             blockExplorerUrls |-> IF network.blockExplorerUrl = ""
                                   THEN Null
                                   ELSE Some(<<network.blockExplorerUrl>>)])

\* switchNetwork, up to its first await: getProvider(), the registry lookup,
\* then provider.request inside the try (a TypeError when the provider is
\* undefined has no code 4902, so the catch rethrows it)
switchNetworkStart(k, chainId) ==
    LET network == getNetworkByChainId(chainId)
    IN  IF ~window.defined
        THEN [started |-> FALSE, raised |-> Some(MsgWindowUndefined)]
        ELSE IF network = Null
        THEN [started |-> FALSE, raised |-> Some(MsgUnsupportedNetwork(chainId))]
        ELSE IF getProvider(k) = Null
        THEN [started |-> FALSE, raised |-> Some(MsgUndefinedProvider)]
        ELSE [started |-> TRUE, raised |-> Null]

\* switchNetwork's catch block, for a rejected switch request
switchNetworkCatch(chainId, error) ==
    IF error.code = 4902
    THEN [add |-> TRUE, raised |-> Null]
    ELSE [add |-> FALSE, raised |-> Some(error.message)]

----------------------------------------------------------------------------
(* WalletAdapter: the synchronous pieces.  A backend is referred to by its
   kind: the adapter constructs one backend per kind and never replaces it. *)

\* the keys of the wallets Map, in insertion order
Registered == <<KAIKAS, METAMASK>>

\* a WalletAdapter after its constructor: no current wallet, no call suspended
NewAdapter == [currentWallet |-> Null, call |-> Null]

Includes(seq, x) == \E j \in 1..Len(seq) : seq[j] = x

getAvailableWallets_Unfiltered == Registered

\* entries().filter(([, wallet]) => wallet.isAvailable()).map(([p]) => p)
getAvailableWallets ==
    LET Keep(k) == isAvailable(k)
    IN  SelectSeq(Registered, Keep)

selectWallet_ClearsOnFailure(a, kind) ==
    IF ~Includes(Registered, kind)
    THEN [raised |-> Some(MsgUnsupportedWallet(kind)), ret |-> Null,
          currentWallet |-> Null]
    ELSE IF ~isAvailable(kind)
    THEN [raised |-> Some(MsgUnavailable(kind)), ret |-> Null,
          currentWallet |-> Null]
    ELSE [raised |-> Null, ret |-> Some(kind), currentWallet |-> Some(kind)]

selectWallet_NoRecord(a, kind) ==
    IF ~Includes(Registered, kind)
    THEN [raised |-> Some(MsgUnsupportedWallet(kind)), ret |-> Null,
          currentWallet |-> a.currentWallet]
    ELSE IF ~isAvailable(kind)
    THEN [raised |-> Some(MsgUnavailable(kind)), ret |-> Null,
          currentWallet |-> a.currentWallet]
    ELSE [raised |-> Null, ret |-> Some(kind), currentWallet |-> a.currentWallet]

\* selectWallet: what it raises or returns, and the current wallet after it
selectWallet(a, kind) ==
    IF ~Includes(Registered, kind)
    THEN [raised |-> Some(MsgUnsupportedWallet(kind)), ret |-> Null,
          currentWallet |-> a.currentWallet]
    ELSE IF ~isAvailable(kind)
    THEN [raised |-> Some(MsgUnavailable(kind)), ret |-> Null,
          currentWallet |-> a.currentWallet]
    ELSE [raised |-> Null, ret |-> Some(kind), currentWallet |-> Some(kind)]

\* autoConnect's priority list
priority == <<KAIKAS, METAMASK, WALLET_CONNECT>>

candidateFrom_LowestFirst(a, available, p) ==
    LET hits == {j \in p..Len(priority) :
                    /\ Includes(available, priority[j])
                    /\ selectWallet(a, priority[j]).raised = Null}
    IN  IF hits = {} THEN 0 ELSE CHOOSE j \in hits : \A h \in hits : j >= h

\* autoConnect's loop from position p of the priority list: the position of
\* the next kind that is in availableWallets and that selectWallet accepts
\* (a selectWallet that throws is caught and the loop continues), 0 if none
candidateFrom(a, available, p) ==
    LET hits == {j \in p..Len(priority) :
                    /\ Includes(available, priority[j])
                    /\ selectWallet(a, priority[j]).raised = Null}
    IN  IF hits = {} THEN 0 ELSE CHOOSE j \in hits : \A h \in hits : j <= h

connectedFrom_NotDisconnected(p) ==
    LET hits == {j \in p..Len(Registered) :
                    state[Registered[j]].status # DISCONNECTED}
    IN  IF hits = {} THEN 0 ELSE CHOOSE j \in hits : \A h \in hits : j <= h

\* disconnectAll's loop from position p of the wallets: the position of the
\* next backend whose status is connected, 0 if none
connectedFrom(p) ==
    LET hits == {j \in p..Len(Registered) :
                    state[Registered[j]].status = CONNECTED}
    IN  IF hits = {} THEN 0 ELSE CHOOSE j \in hits : \A h \in hits : j <= h

\* the position of a kind in a list
PositionIn(seq, x) == CHOOSE j \in 1..Len(seq) : seq[j] = x

----------------------------------------------------------------------------
(* Suspended calls *)

\* a call suspended at an await; op is the call, pc the await it waits at.
\* err is the pending rejection of the inner call it awaits, caught the
\* failure getNetwork's catch discarded.  For sendTransaction, signMessage and
\* switchNetwork, tx, message and chainId are the call's argument (txParams,
\* the message, the chain id), sent the requests the call has sent so far,
\* oldest first, and hash the hash of the submitted transaction.  awaited
\* marks the connect() that the adapter's autoConnect() awaits
NewTask(op, pc) ==
    [op |-> op, pc |-> pc, listed |-> <<>>, address |-> "", balance |-> "",
     account |-> Null, network |-> Null, err |-> Null, caught |-> Null,
     tx |-> Null, message |-> "", chainId |-> 0, sent |-> <<>>, hash |-> "",
     awaited |-> FALSE]

Remove(ts, i) == SubSeq(ts, 1, i - 1) \o SubSeq(ts, i + 1, Len(ts))

\* the record of a step that begins or ends a call: the call (op), the await
\* at which the step resumed it ("call" for the step that begins it), the
\* status before the step, the answer the step consumed (of the provider, of
\* the RPC client, or the outcome of the inner call it awaited), whether the
\* call ended, what it raised or returned, the events the step emitted, in order,
\* for each connect, disconnect or error event among them the state getState()
\* returns to a listener while the event is emitted, and the requests it sent
\* to the provider and the RPC client.  For the step
\* that ends a connect, listed is the account list that connect was given;
\* for the step that ends a suspended call, sent is all the call has sent,
\* and awaited tells that the adapter's autoConnect() awaits this call.
Record(op, stage, k, idx, answer, done, raised, ret, events, calls) ==
    [op |-> op, stage |-> stage, k |-> k,
     preStatus |-> state[k].status,
     listed |-> IF done /\ op = "connect" /\ idx > 0
                THEN tasks[k][idx].listed ELSE <<>>,
     sent |-> IF done /\ idx > 0 THEN tasks[k][idx].sent ELSE <<>>,
     awaited |-> done /\ idx > 0 /\ tasks[k][idx].awaited,
     answer |-> answer, done |-> done, raised |-> raised, ret |-> ret,
     events |-> events, seen |-> <<>>, calls |-> calls]

\* the record of a step inside a call (the call resumes and suspends again)
Internal ==
    [op |-> "internal", stage |-> "internal", k |-> KAIKAS,
     preStatus |-> DISCONNECTED, listed |-> <<>>, sent |-> <<>>,
     awaited |-> FALSE, answer |-> Null,
     done |-> FALSE, raised |-> Null, ret |-> Null, events |-> <<>>,
     seen |-> <<>>, calls |-> <<>>]

\* the adapter after a step of a backend: when the connect() its autoConnect()
\* awaits has ended, the autoConnect() can resume with the outcome
Settled(a, rec) ==
    IF rec.awaited /\ a.call # Null
    THEN [a EXCEPT !.call = Some([Val(@) EXCEPT !.pc = "settled",
                                                !.ok = (rec.raised = Null)])]
    ELSE a

Apply(k, s2, w2, ts2, rec) ==
    /\ state' = [state EXCEPT ![k] = s2]
    /\ web3Provider' = [web3Provider EXCEPT ![k] = w2]
    /\ tasks' = [tasks EXCEPT ![k] = ts2]
    /\ adapter' = Settled(adapter, rec)
    /\ last' = rec
    /\ UNCHANGED window

\* the call of task i stays suspended, now as t
Suspend(k, i, t) ==
    Apply(k, state[k], web3Provider[k], [tasks[k] EXCEPT ![i] = t], Internal)

ConnectFails_KeepsConnected(k, i, stage, answer, message) ==
    LET c == connectCatch(state[k], message)
    IN  Apply(k, IF state[k].status = CONNECTED THEN state[k] ELSE c.state,
              web3Provider[k], Remove(tasks[k], i),
              [Record("connect", stage, k, i, answer, TRUE,
                      c.raised, Null, c.events, <<>>) EXCEPT !.seen = c.seen])

\* connect fails: its catch block runs and the call ends
ConnectFails(k, i, stage, answer, message) ==
    LET c == connectCatch(state[k], message)
    IN  Apply(k, c.state, web3Provider[k], Remove(tasks[k], i),
              [Record("connect", stage, k, i, answer, TRUE,
                      c.raised, Null, c.events, <<>>) EXCEPT !.seen = c.seen])

CallEnds_HandlesError(k, i, stage, answer, raised, ret) ==
    LET s2 == IF raised = Null THEN state[k]
              ELSE handleError(state[k], Val(raised)).state
    IN  Apply(k, s2, web3Provider[k], Remove(tasks[k], i),
              Record(tasks[k][i].op, stage, k, i, answer, TRUE,
                     raised, ret, <<>>, <<>>))

\* a direct call ends without touching the backend's state
CallEnds(k, i, stage, answer, raised, ret) ==
    Apply(k, state[k], web3Provider[k], Remove(tasks[k], i),
          Record(tasks[k][i].op, stage, k, i, answer, TRUE,
                 raised, ret, <<>>, <<>>))

\* getBalance(address) called with an address, from connect or getAccount:
\* the session check, then the query
EnterGetBalance(k, t) ==
    IF web3Provider[k] = Null
    THEN [t EXCEPT !.pc = "balanceSettled", !.err = Some(MsgNotConnected)]
    ELSE [t EXCEPT !.pc = "balance"]

\* getNetwork(): null without a session, else the query
EnterGetNetwork(k, t) ==
    IF web3Provider[k] = Null
    THEN [t EXCEPT !.pc = "networkSettled", !.network = Null]
    ELSE [t EXCEPT !.pc = "network"]

CallsOf(t, pc, name) == IF t.pc = pc THEN <<name>> ELSE <<>>

----------------------------------------------------------------------------
(* The answers the collaborators can give *)

RequestAnswers == {Ok(0), Fail(MsgUserRejected)}
ListAnswers == {Ok(l) : l \in AccountLists} \cup {Fail(MsgRpc)}
BalanceAnswers == {Ok(b) : b \in Balances} \cup {Fail(MsgRpc)}
NetworkAnswers == {Ok(c) : c \in ChainIds} \cup {Fail(MsgRpc)}
SignerAnswers == {Ok(0), Fail(MsgRpc)}
SubmitAnswers == {Ok(h) : h \in TxHashes} \cup {Fail(MsgFunds)}
ReceiptAnswers == {Ok(r) : r \in Receipts} \cup {Fail(MsgReverted)}
SignAnswers == {Ok(g) : g \in Signatures} \cup {Fail(MsgUserRejected)}
SwitchAnswers ==
    { [ProviderError(0, "") EXCEPT !.ok = TRUE],
      ProviderError(4902, MsgUnknownChain), ProviderError(4001, MsgUserRejected) }
AddAnswers ==
    { [ProviderError(0, "") EXCEPT !.ok = TRUE], ProviderError(4001, MsgUserRejected) }

At(k, i, pc) == i \in 1..Len(tasks[k]) /\ tasks[k][i].pc = pc
Room(k) == Len(tasks[k]) < MaxTasks

----------------------------------------------------------------------------
(* Calls *)

\* connect(), up to `await provider.request({ method: 'eth_requestAccounts' })`
connect(k) ==
    LET c == connectStart(k, state[k], isAvailable(k))
    IN  IF ~c.started
        THEN Apply(k, c.state, web3Provider[k], tasks[k],
                   Record("connect", "call", k, 0, Null, TRUE,
                          c.raised, Null, <<>>, <<>>))
        ELSE Apply(k, c.state, Some(k),
                   Append(tasks[k], NewTask("connect", "request")),
                   Record("connect", "call", k, 0, Null, FALSE,
                          Null, Null, <<>>, <<"eth_requestAccounts">>))

\* the application calls connect()
Connect(k) ==
    /\ isAvailable(k) => Room(k)
    /\ connect(k)

\* the account request settles; then `await this.web3Provider.listAccounts()`
RequestSettled(k, i, ans) ==
    /\ At(k, i, "request")
    /\ IF ~ans.ok
       THEN ConnectFails(k, i, "request", Some(ans), ans.message)
       ELSE IF web3Provider[k] = Null
       THEN ConnectFails(k, i, "request", Some(ans), MsgNullProvider)
       ELSE Suspend(k, i, [tasks[k][i] EXCEPT !.pc = "listAccounts"])

Disconnect_Cancels(k) ==
    LET d == disconnect(state[k])
        Pending(t) == t.op # "connect"
    IN  Apply(k, d.state, d.web3Provider, SelectSeq(tasks[k], Pending),
              [Record("disconnect", "call", k, 0, Null, TRUE,
                      Null, Null, d.events, <<>>) EXCEPT !.seen = d.seen])

\* disconnect()
Disconnect(k) ==
    LET d == disconnect(state[k])
    IN  Apply(k, d.state, d.web3Provider, tasks[k],
              [Record("disconnect", "call", k, 0, Null, TRUE,
                      Null, Null, d.events, <<>>) EXCEPT !.seen = d.seen])

\* getBalance(address?), up to its first await
GetBalance(k, address) ==
    IF web3Provider[k] = Null
    THEN Apply(k, state[k], web3Provider[k], tasks[k],
               Record("getBalance", "call", k, 0, Null, TRUE,
                      Some(MsgNotConnected), Null, <<>>, <<>>))
    ELSE /\ Room(k)
         /\ LET t == IF address = Null \/ Val(address) = ""
                     THEN NewTask("getBalance", "listAccounts")
                     ELSE [NewTask("getBalance", "balance")
                              EXCEPT !.address = Val(address)]
            IN  Apply(k, state[k], web3Provider[k], Append(tasks[k], t),
                      Record("getBalance", "call", k, 0, Null, FALSE,
                             Null, Null, <<>>,
                             CallsOf(t, "listAccounts", "listAccounts")
                                 \o CallsOf(t, "balance", "getBalance")))


\* listAccounts() settles, in connect, in getAccount or in getBalance
ListAccountsSettled(k, i, ans) ==
    /\ At(k, i, "listAccounts")
    /\ LET t == tasks[k][i]
           empty == ans.ok /\ Len(ans.value) = 0
           found == [t EXCEPT !.listed = ans.value,
                              !.address = FirstAddress(ans.value)]
       IN  CASE t.op = "connect" ->
                  IF ~ans.ok
                  THEN ConnectFails(k, i, "listAccounts", Some(ans), ans.message)
                  ELSE IF empty
                  THEN ConnectFails(k, i, "listAccounts", Some(ans), MsgNoAccount)
                  ELSE LET u == EnterGetBalance(k, found)
                       IN  Suspend(k, i, u)
             [] t.op = "accountsChanged" ->
                  \* getAccount: null for no accounts, and for any failure
                  IF ~ans.ok \/ empty
                  THEN Suspend(k, i, [t EXCEPT !.pc = "accountSettled"])
                  ELSE LET u == EnterGetBalance(k, found)
                       IN  IF u.err # Null
                           THEN Suspend(k, i, [t EXCEPT !.pc = "accountSettled"])
                           ELSE Suspend(k, i, u)
             [] t.op = "getAccount" ->
                  \* getAccount called directly: it returns what it found
                  IF ~ans.ok \/ empty
                  THEN CallEnds(k, i, "listAccounts", Some(ans), Null, Some(Null))
                  ELSE LET u == EnterGetBalance(k, found)
                       IN  IF u.err # Null
                           THEN CallEnds(k, i, "listAccounts", Some(ans), Null,
                                         Some(Null))
                           ELSE Suspend(k, i, u)
             [] t.op = "getBalance" ->
                  \* inside getBalance's try: every failure is wrapped
                  IF ~ans.ok
                  THEN CallEnds(k, i, "listAccounts", Some(ans),
                                Some(MsgBalanceFailed(ans.message)), Null)
                  ELSE IF empty
                  THEN CallEnds(k, i, "listAccounts", Some(ans),
                                Some(MsgBalanceFailed(MsgNoAccount)), Null)
                  ELSE IF web3Provider[k] = Null
                  THEN CallEnds(k, i, "listAccounts", Some(ans),
                                Some(MsgBalanceFailed(MsgNullProvider)), Null)
                  ELSE Suspend(k, i, [found EXCEPT !.pc = "balance"])

\* web3Provider.getBalance(address) settles, inside getBalance
BalanceSettled(k, i, ans) ==
    /\ At(k, i, "balance")
    /\ LET t == tasks[k][i]
           raised == IF ans.ok THEN Null ELSE Some(MsgBalanceFailed(ans.message))
           balance == IF ans.ok THEN BalanceString(ans.value) ELSE ""
       IN  CASE t.op = "connect" ->
                  Suspend(k, i, [t EXCEPT !.pc = "balanceSettled",
                                          !.balance = balance, !.err = raised])
             [] t.op = "accountsChanged" ->
                  Suspend(k, i,
                          [t EXCEPT !.pc = "accountSettled",
                                    !.account =
                                        IF ans.ok
                                        THEN Some([address |-> t.address,
                                                   balance |-> balance])
                                        ELSE Null])
             [] t.op = "getAccount" ->
                  CallEnds(k, i, "balance", Some(ans), Null,
                           Some(IF ans.ok
                                THEN Some([address |-> t.address,
                                           balance |-> balance])
                                ELSE Null))
             [] t.op = "getBalance" ->
                  CallEnds(k, i, "balance", Some(ans), raised,
                           IF ans.ok THEN Some(balance) ELSE Null)

\* connect resumes after `await this.getBalance(address)`; then
\* `await this.getNetwork()`
ConnectBalanceReturned(k, i) ==
    /\ At(k, i, "balanceSettled")
    /\ LET t == tasks[k][i]
       IN  IF t.err # Null
           THEN ConnectFails(k, i, "balanceSettled", Some(Fail(Val(t.err))),
                             Val(t.err))
           ELSE LET u == EnterGetNetwork(k, t)
                IN  Suspend(k, i, u)

NetworkSettled_Rethrows(k, i, ans) ==
    /\ At(k, i, "network")
    /\ LET network == IF ans.ok THEN getNetworkByChainId(ans.value) ELSE Null
       IN  IF tasks[k][i].op = "getNetwork"
           THEN IF ans.ok
                THEN CallEnds(k, i, "network", Some(ans), Null, Some(network))
                ELSE CallEnds(k, i, "network", Some(ans), Some(ans.message), Null)
           ELSE Suspend(k, i,
                        [tasks[k][i] EXCEPT !.pc = "networkSettled",
                                            !.network = network,
                                            !.caught = IF ans.ok THEN Null
                                                       ELSE Some(ans.message)])

\* web3Provider.getNetwork() settles, inside getNetwork: the registry's entry
\* for the chain, null for a failure
NetworkSettled(k, i, ans) ==
    /\ At(k, i, "network")
    /\ LET network == IF ans.ok THEN getNetworkByChainId(ans.value) ELSE Null
       IN  IF tasks[k][i].op = "getNetwork"
           THEN CallEnds(k, i, "network", Some(ans), Null, Some(network))
           ELSE Suspend(k, i,
                        [tasks[k][i] EXCEPT !.pc = "networkSettled",
                                            !.network = network,
                                            !.caught = IF ans.ok THEN Null
                                                       ELSE Some(ans.message)])

\* connect resumes after `await this.getNetwork()` and returns
ConnectNetworkReturned(k, i) ==
    /\ At(k, i, "networkSettled")
    /\ tasks[k][i].op = "connect"
    /\ LET t == tasks[k][i]
           c == connectFinish(state[k],
                              [address |-> t.address, balance |-> t.balance],
                              t.network)
       IN  Apply(k, c.state, web3Provider[k], Remove(tasks[k], i),
                 [Record("connect", "networkSettled", k, i,
                         IF t.caught # Null THEN Some(Fail(Val(t.caught)))
                         ELSE Some(Ok(t.network)),
                         TRUE, Null, c.ret, c.events, <<>>)
                    EXCEPT !.seen = c.seen])

----------------------------------------------------------------------------
(* Calls that sign and send, and the network switch *)

\* getAccount() called directly, up to `await this.web3Provider.listAccounts()`
GetAccount(k) ==
    IF web3Provider[k] = Null
    THEN Apply(k, state[k], web3Provider[k], tasks[k],
               Record("getAccount", "call", k, 0, Null, TRUE, Null,
                      Some(Null), <<>>, <<>>))
    ELSE /\ Room(k)
         /\ Apply(k, state[k], web3Provider[k],
                  Append(tasks[k], NewTask("getAccount", "listAccounts")),
                  Record("getAccount", "call", k, 0, Null, FALSE, Null, Null,
                         <<>>, <<"listAccounts">>))

\* getNetwork() called directly, up to `await this.web3Provider.getNetwork()`
GetNetwork(k) ==
    IF web3Provider[k] = Null
    THEN Apply(k, state[k], web3Provider[k], tasks[k],
               Record("getNetwork", "call", k, 0, Null, TRUE, Null,
                      Some(Null), <<>>, <<>>))
    ELSE /\ Room(k)
         /\ Apply(k, state[k], web3Provider[k],
                  Append(tasks[k], NewTask("getNetwork", "network")),
                  Record("getNetwork", "call", k, 0, Null, FALSE, Null, Null,
                         <<>>, <<"getNetwork">>))

\* the step that begins a call which is refused before its first await
Refused(op, k, raised) ==
    Apply(k, state[k], web3Provider[k], tasks[k],
          Record(op, "call", k, 0, Null, TRUE, raised, Null, <<>>, <<>>))

\* the step that begins a call and suspends it at its first request
Begins(k, t, request) ==
    /\ Room(k)
    /\ Apply(k, state[k], web3Provider[k],
             Append(tasks[k], [t EXCEPT !.sent = <<request>>]),
             Record(t.op, "call", k, 0, Null, FALSE, Null, Null, <<>>,
                    <<request.method>>))

\* the call of task i sends its next request and suspends at pc
Sends(k, i, pc, request) ==
    Suspend(k, i, [tasks[k][i] EXCEPT !.pc = pc, !.sent = Append(@, request)])

\* sendTransaction(params), up to `await this.web3Provider.getSigner()`
SendTransaction(k, params) ==
    LET c == sendTransactionStart(web3Provider[k])
    IN  IF ~c.started THEN Refused("sendTransaction", k, c.raised)
        ELSE Begins(k, [NewTask("sendTransaction", "getSigner")
                               EXCEPT !.tx = Some(txParams(params))],
                    Request("getSigner", NoArgs))

\* signMessage(message), up to `await this.web3Provider.getSigner()`
SignMessage(k, message) ==
    LET c == signMessageStart(web3Provider[k])
    IN  IF ~c.started THEN Refused("signMessage", k, c.raised)
        ELSE Begins(k, [NewTask("signMessage", "getSigner")
                               EXCEPT !.message = message],
                    Request("getSigner", NoArgs))

\* getSigner() settles; then signer.sendTransaction(txParams), or
\* signer.signMessage(message)
GetSignerSettled(k, i, ans) ==
    /\ At(k, i, "getSigner")
    /\ LET t == tasks[k][i]
       IN  CASE t.op = "sendTransaction" ->
                  IF ~ans.ok
                  THEN CallEnds(k, i, "getSigner", Some(ans),
                                Some(MsgTxFailed(ans.message)), Null)
                  ELSE Sends(k, i, "submit", Request("sendTransaction", Val(t.tx)))
             [] t.op = "signMessage" ->
                  IF ~ans.ok
                  THEN CallEnds(k, i, "getSigner", Some(ans),
                                Some(MsgSignFailed(ans.message)), Null)
                  ELSE Sends(k, i, "sign", Request("signMessage", [message |-> t.message]))

SubmitSettled_NoWait(k, i, ans) ==
    /\ At(k, i, "submit")
    /\ IF ~ans.ok
       THEN CallEnds(k, i, "submit", Some(ans),
                     Some(MsgTxFailed(ans.message)), Null)
       ELSE CallEnds(k, i, "submit", Some(ans), Null,
                     Some(TransactionResult(ans.value, Null)))

\* signer.sendTransaction settles; then `await tx.wait()`
SubmitSettled(k, i, ans) ==
    /\ At(k, i, "submit")
    /\ IF ~ans.ok
       THEN CallEnds(k, i, "submit", Some(ans),
                     Some(MsgTxFailed(ans.message)), Null)
       ELSE Suspend(k, i, [tasks[k][i] EXCEPT
                              !.pc = "wait", !.hash = ans.value,
                              !.sent = Append(@, Request("wait", NoArgs))])

\* tx.wait() settles: the TransactionResult, or the wrapped failure
WaitSettled(k, i, ans) ==
    /\ At(k, i, "wait")
    /\ IF ~ans.ok
       THEN CallEnds(k, i, "wait", Some(ans),
                     Some(MsgTxFailed(ans.message)), Null)
       ELSE CallEnds(k, i, "wait", Some(ans), Null,
                     Some(TransactionResult(tasks[k][i].hash, ans.value)))

\* signer.signMessage settles
SignSettled(k, i, ans) ==
    /\ At(k, i, "sign")
    /\ IF ~ans.ok
       THEN CallEnds(k, i, "sign", Some(ans),
                     Some(MsgSignFailed(ans.message)), Null)
       ELSE CallEnds(k, i, "sign", Some(ans), Null, Some(ans.value))

\* switchNetwork(chainId), up to the switch request
SwitchNetwork(k, chainId) ==
    LET c == switchNetworkStart(k, chainId)
    IN  IF ~c.started THEN Refused("switchNetwork", k, c.raised)
        ELSE Begins(k, [NewTask("switchNetwork", "switch")
                               EXCEPT !.chainId = chainId],
                    SwitchRequest(chainId))

SwitchSettled_StoresNetwork(k, i, ans) ==
    /\ At(k, i, "switch")
    /\ LET chainId == tasks[k][i].chainId
           c == switchNetworkCatch(chainId, ans)
       IN  IF ans.ok
           THEN Apply(k, updateState(state[k],
                                     [network |-> getNetworkByChainId(chainId)]),
                      web3Provider[k], Remove(tasks[k], i),
                      Record("switchNetwork", "switch", k, i, Some(ans), TRUE,
                             Null, Null, <<>>, <<>>))
           ELSE IF c.add
           THEN Sends(k, i, "add",
                      AddRequest(chainId, Val(getNetworkByChainId(chainId))))
           ELSE CallEnds(k, i, "switch", Some(ans), c.raised, Null)

\* the switch request settles: done, or the add request, or the rethrow
SwitchSettled(k, i, ans) ==
    /\ At(k, i, "switch")
    /\ LET chainId == tasks[k][i].chainId
           c == switchNetworkCatch(chainId, ans)
       IN  IF ans.ok THEN CallEnds(k, i, "switch", Some(ans), Null, Null)
           ELSE IF c.add
           THEN Sends(k, i, "add",
                      AddRequest(chainId, Val(getNetworkByChainId(chainId))))
           ELSE CallEnds(k, i, "switch", Some(ans), c.raised, Null)

\* the add request settles; it is outside the try, so its failure is raised
\* as it is
AddSettled(k, i, ans) ==
    /\ At(k, i, "add")
    /\ CallEnds(k, i, "add", Some(ans),
                IF ans.ok THEN Null ELSE Some(ans.message), Null)

----------------------------------------------------------------------------
(* The provider's native notifications *)

\* provider.on('accountsChanged', ...): the listener, up to the first await
\* of the getAccount() it calls
onAccountsChanged(k, accounts) ==
    /\ Listening(k)
    /\ LET emitted == <<Event("accountsChanged", accounts)>>
       IN  IF Len(accounts) = 0
           THEN LET d == disconnect(state[k])
                IN  Apply(k, d.state, d.web3Provider, tasks[k],
                          [Record("accountsChanged", "call", k, 0, Null, TRUE,
                                  Null, Null, emitted \o d.events, <<>>)
                             EXCEPT !.seen = d.seen])
           ELSE LET t == IF web3Provider[k] = Null
                         THEN NewTask("accountsChanged", "accountSettled")
                         ELSE NewTask("accountsChanged", "listAccounts")
                IN  Apply(k, state[k], web3Provider[k], Append(tasks[k], t),
                          Record("accountsChanged", "call", k, 0, Null,
                                 FALSE, Null, Null, emitted,
                                 CallsOf(t, "listAccounts", "listAccounts")))

AccountsChanged_EmitOnly(k, accounts) ==
    /\ Listening(k)
    /\ Apply(k, state[k], web3Provider[k], tasks[k],
             Record("accountsChanged", "call", k, 0, Null, TRUE, Null, Null,
                    <<Event("accountsChanged", accounts)>>, <<>>))

\* the provider sends accountsChanged
AccountsChanged(k, accounts) ==
    /\ Len(accounts) = 0 \/ Room(k)
    /\ onAccountsChanged(k, accounts)

\* this.getAccount().then(account => ...)
AccountsHandlerThen(k, i) ==
    /\ At(k, i, "accountSettled")
    /\ Apply(k, onAccountFetched(state[k], tasks[k][i].account), web3Provider[k],
             Remove(tasks[k], i),
             Record("accountsChanged", "accountSettled", k, i,
                    Some(Ok(tasks[k][i].account)), TRUE, Null, Null, <<>>, <<>>))

\* provider.on('chainChanged', ...): the listener, up to the first await of
\* the getNetwork() it calls
onChainChanged(k, chainId) ==
    /\ Listening(k)
    /\ LET t == EnterGetNetwork(k, NewTask("chainChanged", "call"))
       IN  Apply(k, state[k], web3Provider[k], Append(tasks[k], t),
                 Record("chainChanged", "call", k, 0, Null, FALSE,
                        Null, Null, <<Event("chainChanged", chainId)>>,
                        CallsOf(t, "network", "getNetwork")))

\* the provider sends chainChanged
ChainChanged(k, chainId) ==
    /\ Room(k)
    /\ onChainChanged(k, chainId)

\* this.getNetwork().then(network => ...)
ChainHandlerThen(k, i) ==
    /\ At(k, i, "networkSettled")
    /\ tasks[k][i].op = "chainChanged"
    /\ Apply(k, onNetworkFetched(state[k], tasks[k][i].network), web3Provider[k],
             Remove(tasks[k], i),
             Record("chainChanged", "networkSettled", k, i,
                    Some(Ok(tasks[k][i].network)), TRUE, Null, Null, <<>>, <<>>))

\* provider.on('disconnect', ...)
ProviderDisconnect(k) ==
    /\ Listening(k)
    /\ LET d == disconnect(state[k])
       IN  Apply(k, d.state, d.web3Provider, tasks[k],
                 [Record("providerDisconnect", "call", k, 0, Null, TRUE,
                         Null, Null, d.events, <<>>) EXCEPT !.seen = d.seen])

----------------------------------------------------------------------------
(* WalletAdapter: its calls.  autoConnect() and disconnectAll() suspend at
   their awaits; the adapter holds at most one suspended call (its caller
   awaits it before calling either again). *)

\* the record of a step of the adapter
AdapterRecord(op, k, done, raised, ret, events, calls) ==
    [Internal EXCEPT !.op = op, !.stage = "adapter", !.k = k, !.done = done,
                     !.raised = raised, !.ret = ret, !.events = events,
                     !.calls = calls]

\* a step of the adapter that touches no backend
AdapterOnly(a2, rec) ==
    /\ adapter' = a2
    /\ last' = rec
    /\ UNCHANGED <<window, state, web3Provider, tasks>>

\* the suspended call of the adapter
AdapterCall(op, k, pc, available) ==
    [op |-> op, k |-> k, pc |-> pc, ok |-> FALSE, available |-> available]

GetAvailableWallets ==
    AdapterOnly(adapter, AdapterRecord("getAvailableWallets", KAIKAS, TRUE, Null,
                                       Some(getAvailableWallets), <<>>, <<>>))

SelectWallet_ResetsOthers(kind) ==
    LET sel == selectWallet(adapter, kind)
    IN  /\ adapter' = [adapter EXCEPT !.currentWallet = sel.currentWallet]
        /\ last' = AdapterRecord("selectWallet", kind, TRUE, sel.raised,
                                 sel.ret, <<>>, <<>>)
        /\ state' = [k \in Kinds |->
                        IF sel.raised = Null /\ k # kind
                        THEN disconnect(state[k]).state ELSE state[k]]
        /\ UNCHANGED <<window, web3Provider, tasks>>

SelectWallet(kind) ==
    LET sel == selectWallet(adapter, kind)
    IN  AdapterOnly([adapter EXCEPT !.currentWallet = sel.currentWallet],
                    AdapterRecord("selectWallet", kind, TRUE, sel.raised,
                                  sel.ret, <<>>, <<>>))

GetCurrentWallet ==
    AdapterOnly(adapter, AdapterRecord("getCurrentWallet", KAIKAS, TRUE, Null,
                                       Some(adapter.currentWallet), <<>>, <<>>))

getWalletStates_AvailableOnly ==
    [k \in {Registered[j] : j \in 1..Len(Registered)} \cap {h \in Kinds : isAvailable(h)}
        |-> state[k]]

\* getWalletStates(): for each entry of the wallets Map, wallet.getState(),
\* which is a copy of the backend's state
getWalletStates == [k \in {Registered[j] : j \in 1..Len(Registered)} |-> state[k]]

GetWalletStates ==
    AdapterOnly(adapter, AdapterRecord("getWalletStates", KAIKAS, TRUE, Null,
                                       Some(getWalletStates), <<>>, <<>>))

AutoConnectFrom_ClearsCurrent(available, p) ==
    LET j == candidateFrom(adapter, available, p)
        k == priority[j]
        c == connectStart(k, state[k], isAvailable(k))
    IN  IF j = 0
        THEN AdapterOnly([currentWallet |-> Null, call |-> Null],
                         AdapterRecord("autoConnect", KAIKAS, TRUE, Null,
                                       Some(Null), <<>>, <<>>))
        ELSE /\ Room(k)
             /\ state' = [state EXCEPT ![k] = c.state]
             /\ web3Provider' = [web3Provider EXCEPT ![k] = Some(k)]
             /\ tasks' = [tasks EXCEPT ![k] =
                             Append(@, [NewTask("connect", "request")
                                           EXCEPT !.awaited = TRUE])]
             /\ adapter' = [currentWallet |-> Some(k),
                            call |-> Some(AdapterCall("autoConnect", k,
                                                      "connect", available))]
             /\ last' = AdapterRecord("autoConnect", k, FALSE, Null, Null,
                                      <<>>, <<"eth_requestAccounts">>)
             /\ UNCHANGED window

\* autoConnect's loop from position p: select the next candidate and call its
\* connect(), up to connect's first await; or return null
AutoConnectFrom(available, p) ==
    LET j == candidateFrom(adapter, available, p)
        k == priority[j]
        c == connectStart(k, state[k], isAvailable(k))
    IN  IF j = 0
        THEN AdapterOnly([adapter EXCEPT !.call = Null],
                         AdapterRecord("autoConnect", KAIKAS, TRUE, Null,
                                       Some(Null), <<>>, <<>>))
        ELSE IF ~c.started
        THEN AdapterOnly([currentWallet |-> Some(k),
                          call |-> Some([AdapterCall("autoConnect", k, "settled",
                                                     available)
                                            EXCEPT !.ok = FALSE])],
                         AdapterRecord("autoConnect", k, FALSE, Null, Null,
                                       <<>>, <<>>))
        ELSE /\ Room(k)
             /\ state' = [state EXCEPT ![k] = c.state]
             /\ web3Provider' = [web3Provider EXCEPT ![k] = Some(k)]
             /\ tasks' = [tasks EXCEPT ![k] =
                             Append(@, [NewTask("connect", "request")
                                           EXCEPT !.awaited = TRUE])]
             /\ adapter' = [currentWallet |-> Some(k),
                            call |-> Some(AdapterCall("autoConnect", k,
                                                      "connect", available))]
             /\ last' = AdapterRecord("autoConnect", k, FALSE, Null, Null,
                                      <<>>, <<"eth_requestAccounts">>)
             /\ UNCHANGED window

\* autoConnect(), up to its first await or its return
AutoConnect ==
    /\ adapter.call = Null
    /\ LET available == getAvailableWallets
       IN  IF Len(available) = 0
           THEN AdapterOnly(adapter,
                            AdapterRecord("autoConnect", KAIKAS, TRUE, Null,
                                          Some(Null), <<>>, <<>>))
           ELSE AutoConnectFrom(available, 1)

AutoConnectResumes_Rethrows ==
    /\ adapter.call # Null
    /\ LET call == Val(adapter.call)
       IN  /\ call.op = "autoConnect" /\ call.pc = "settled"
           /\ IF call.ok
              THEN AdapterOnly([adapter EXCEPT !.call = Null],
                               AdapterRecord("autoConnect", call.k, TRUE, Null,
                                             Some(Some(call.k)), <<>>, <<>>))
              ELSE AdapterOnly([adapter EXCEPT !.call = Null],
                               AdapterRecord("autoConnect", call.k, TRUE,
                                             last.raised, Null, <<>>, <<>>))

\* autoConnect resumes after `await wallet.connect()`: return the wallet, or
\* warn and continue with the next candidate
AutoConnectResumes ==
    /\ adapter.call # Null
    /\ LET call == Val(adapter.call)
       IN  /\ call.op = "autoConnect" /\ call.pc = "settled"
           /\ IF call.ok
              THEN AdapterOnly([adapter EXCEPT !.call = Null],
                               AdapterRecord("autoConnect", call.k, TRUE, Null,
                                             Some(Some(call.k)), <<>>, <<>>))
              ELSE AutoConnectFrom(call.available,
                                   PositionIn(priority, call.k) + 1)

\* disconnectAll's loop from position p: disconnect the next connected
\* backend and suspend at `await wallet.disconnect()`; or clear the current
\* wallet and return.  disconnect() has stored the new state when it emits
\* 'disconnect'; a listener of the application that throws makes the
\* disconnect() reject (threw), and the call's ok is FALSE.  The step's
\* record has the outcome of the disconnect() the step resumed from
DisconnectAllFrom(p) ==
    LET j == connectedFrom(p)
        k == Registered[j]
        d == disconnect(state[k])
        outcome == IF adapter.call = Null THEN Null
                   ELSE IF Val(adapter.call).ok THEN Some(Ok(0))
                   ELSE Some(Fail(MsgListener))
    IN  IF j = 0
        THEN AdapterOnly([currentWallet |-> Null, call |-> Null],
                         [AdapterRecord("disconnectAll", KAIKAS, TRUE, Null,
                                        Null, <<>>, <<>>)
                             EXCEPT !.answer = outcome])
        ELSE \E threw \in BOOLEAN :
             /\ state' = [state EXCEPT ![k] = d.state]
             /\ web3Provider' = [web3Provider EXCEPT ![k] = d.web3Provider]
             /\ adapter' = [adapter EXCEPT !.call =
                               Some([AdapterCall("disconnectAll", k,
                                                 "disconnect", <<>>)
                                        EXCEPT !.ok = ~threw])]
             /\ last' = [AdapterRecord("disconnectAll", k, FALSE, Null, Null,
                                       d.events, <<>>)
                            EXCEPT !.answer = outcome, !.seen = d.seen]
             /\ UNCHANGED <<window, tasks>>

\* disconnectAll(), up to its first await or its return
DisconnectAll ==
    /\ adapter.call = Null
    /\ DisconnectAllFrom(1)

DisconnectAllResumes_Rethrows ==
    /\ adapter.call # Null
    /\ LET call == Val(adapter.call)
       IN  /\ call.op = "disconnectAll"
           /\ IF call.ok
              THEN DisconnectAllFrom(PositionIn(Registered, call.k) + 1)
              ELSE AdapterOnly([adapter EXCEPT !.call = Null],
                               AdapterRecord("disconnectAll", call.k, TRUE,
                                             Some(MsgListener), Null, <<>>, <<>>))

\* disconnectAll resumes after `await wallet.disconnect()`: the loop goes on,
\* after the catch block if the disconnect() was rejected
DisconnectAllResumes ==
    /\ adapter.call # Null
    /\ LET call == Val(adapter.call)
       IN  /\ call.op = "disconnectAll"
           /\ DisconnectAllFrom(PositionIn(Registered, call.k) + 1)

----------------------------------------------------------------------------
(* The specification: one browser session, the backends of a registry, and
   any interleaving of calls, notifications and answers.  The injected
   objects of a session do not change while the page lives. *)

Init ==
    /\ window \in BrowserSessions
    /\ state = [k \in Kinds |-> InitialState(k)]
    /\ web3Provider = [k \in Kinds |-> Null]
    /\ tasks = [k \in Kinds |-> <<>>]
    /\ adapter = NewAdapter
    /\ last = [Internal EXCEPT !.op = "new"]

Next ==
    \E k \in Kinds :
        \/ Connect(k)
        \/ Disconnect(k)
        \/ \E a \in {Null, Some(""), Some("0xA")} : GetBalance(k, a)
        \/ \E l \in NotifiedLists : AccountsChanged(k, l)
        \/ \E c \in NotifiedChains : ChainChanged(k, c)
        \/ ProviderDisconnect(k)
        \/ \E i \in 1..MaxTasks :
            \/ \E ans \in RequestAnswers : RequestSettled(k, i, ans)
            \/ \E ans \in ListAnswers : ListAccountsSettled(k, i, ans)
            \/ \E ans \in BalanceAnswers : BalanceSettled(k, i, ans)
            \/ ConnectBalanceReturned(k, i)
            \/ \E ans \in NetworkAnswers : NetworkSettled(k, i, ans)
            \/ ConnectNetworkReturned(k, i)
            \/ AccountsHandlerThen(k, i)
            \/ ChainHandlerThen(k, i)

Spec == Init /\ [][Next]_vars

----------------------------------------------------------------------------
(* The same backends when every connect() runs without interference: while a
   connect is suspended on a backend, nothing else happens on that backend *)

Quiet(k) == \A i \in 1..Len(tasks[k]) : tasks[k][i].op # "connect"
MayStep(k, i) ==
    i \in 1..Len(tasks[k]) /\ (tasks[k][i].op = "connect" \/ Quiet(k))

NextSolo ==
    \E k \in Kinds :
        \/ Quiet(k) /\ Connect(k)
        \/ Quiet(k) /\ Disconnect(k)
        \/ Quiet(k) /\ \E a \in {Null, Some(""), Some("0xA")} : GetBalance(k, a)
        \/ Quiet(k) /\ \E l \in NotifiedLists : AccountsChanged(k, l)
        \/ Quiet(k) /\ \E c \in NotifiedChains : ChainChanged(k, c)
        \/ Quiet(k) /\ ProviderDisconnect(k)
        \/ \E i \in 1..MaxTasks :
            \/ \E ans \in RequestAnswers :
                    MayStep(k, i) /\ RequestSettled(k, i, ans)
            \/ \E ans \in ListAnswers :
                    MayStep(k, i) /\ ListAccountsSettled(k, i, ans)
            \/ \E ans \in BalanceAnswers :
                    MayStep(k, i) /\ BalanceSettled(k, i, ans)
            \/ MayStep(k, i) /\ ConnectBalanceReturned(k, i)
            \/ \E ans \in NetworkAnswers :
                    MayStep(k, i) /\ NetworkSettled(k, i, ans)
            \/ MayStep(k, i) /\ ConnectNetworkReturned(k, i)
            \/ MayStep(k, i) /\ AccountsHandlerThen(k, i)
            \/ MayStep(k, i) /\ ChainHandlerThen(k, i)

SpecSolo == Init /\ [][NextSolo]_vars

----------------------------------------------------------------------------
(* The backends under a caller that awaits each call before it issues the
   next one on that backend: connect and the calls that read the balance,
   sign, send and switch the network.  disconnect() has no await and can run
   between any two steps of a suspended call.  No native notification
   arrives. *)

Idle(k) == tasks[k] = <<>>

NextOps ==
    \E k \in Kinds :
        \/ Idle(k) /\ Connect(k)
        \/ Disconnect(k)
        \/ Idle(k) /\ \E a \in {Null, Some(""), Some("0xA")} : GetBalance(k, a)
        \/ Idle(k) /\ \E p \in TxParams : SendTransaction(k, p)
        \/ Idle(k) /\ \E m \in Messages : SignMessage(k, m)
        \/ Idle(k) /\ \E c \in SwitchChains : SwitchNetwork(k, c)
        \/ Idle(k) /\ GetAccount(k)
        \/ Idle(k) /\ GetNetwork(k)
        \/ \E i \in 1..MaxTasks :
            \/ \E ans \in RequestAnswers : RequestSettled(k, i, ans)
            \/ \E ans \in ListAnswers : ListAccountsSettled(k, i, ans)
            \/ \E ans \in BalanceAnswers : BalanceSettled(k, i, ans)
            \/ ConnectBalanceReturned(k, i)
            \/ \E ans \in NetworkAnswers : NetworkSettled(k, i, ans)
            \/ ConnectNetworkReturned(k, i)
            \/ \E ans \in SignerAnswers : GetSignerSettled(k, i, ans)
            \/ \E ans \in SubmitAnswers : SubmitSettled(k, i, ans)
            \/ \E ans \in ReceiptAnswers : WaitSettled(k, i, ans)
            \/ \E ans \in SignAnswers : SignSettled(k, i, ans)
            \/ \E ans \in SwitchAnswers : SwitchSettled(k, i, ans)
            \/ \E ans \in AddAnswers : AddSettled(k, i, ans)

SpecOps == Init /\ [][NextOps]_vars

----------------------------------------------------------------------------
(* The adapter over its backends, in a browser with any combination of the
   two wallets: the adapter's calls, the steps of the connect() calls its
   autoConnect() makes, and disconnect() called on a backend directly *)

RegistrySessions ==
    BrowserSessions
        \cup {Window(TRUE, Some([isKaikas |-> TRUE]), Some([isMetaMask |-> TRUE]))}

InitRegistry ==
    /\ window \in RegistrySessions
    /\ state = [k \in Kinds |-> InitialState(k)]
    /\ web3Provider = [k \in Kinds |-> Null]
    /\ tasks = [k \in Kinds |-> <<>>]
    /\ adapter = NewAdapter
    /\ last = [Internal EXCEPT !.op = "new"]

\* the adapter's call has a continuation queued: the promise it awaits is
\* settled (connect() has ended, or disconnect(), which has no await, has
\* returned).  The continuation is a microtask; a call of the application
\* is made from a task and runs after it
Queued ==
    /\ adapter.call # Null
    /\ Val(adapter.call).pc \in {"settled", "disconnect"}

NextRegistry ==
    \/ ~Queued /\ GetAvailableWallets
    \/ ~Queued /\ \E kind \in Kinds \cup {WALLET_CONNECT} : SelectWallet(kind)
    \/ ~Queued /\ GetCurrentWallet
    \/ ~Queued /\ GetWalletStates
    \/ AutoConnect
    \/ AutoConnectResumes
    \/ DisconnectAll
    \/ DisconnectAllResumes
    \/ \E k \in Kinds :
        \/ ~Queued /\ Disconnect(k)
        \/ \E i \in 1..MaxTasks :
            \/ \E ans \in RequestAnswers : RequestSettled(k, i, ans)
            \/ \E ans \in ListAnswers : ListAccountsSettled(k, i, ans)
            \/ \E ans \in BalanceAnswers : BalanceSettled(k, i, ans)
            \/ ConnectBalanceReturned(k, i)
            \/ \E ans \in NetworkAnswers : NetworkSettled(k, i, ans)
            \/ ConnectNetworkReturned(k, i)

SpecRegistry == InitRegistry /\ [][NextRegistry]_vars

----------------------------------------------------------------------------
(* The adapter when the application awaits autoConnect(): while the call is
   suspended the application reads (getCurrentWallet, getWalletStates) and
   calls neither selectWallet() nor a backend's disconnect() *)

NextAuto ==
    \/ ~Queued /\ adapter.call = Null
               /\ \E kind \in Kinds \cup {WALLET_CONNECT} : SelectWallet(kind)
    \/ ~Queued /\ GetCurrentWallet
    \/ ~Queued /\ GetWalletStates
    \/ AutoConnect
    \/ AutoConnectResumes
    \/ \E k \in Kinds :
        \/ ~Queued /\ adapter.call = Null /\ Disconnect(k)
        \/ \E i \in 1..MaxTasks :
            \/ \E ans \in RequestAnswers : RequestSettled(k, i, ans)
            \/ \E ans \in ListAnswers : ListAccountsSettled(k, i, ans)
            \/ \E ans \in BalanceAnswers : BalanceSettled(k, i, ans)
            \/ ConnectBalanceReturned(k, i)
            \/ \E ans \in NetworkAnswers : NetworkSettled(k, i, ans)
            \/ ConnectNetworkReturned(k, i)

SpecAuto == InitRegistry /\ [][NextAuto]_vars

----------------------------------------------------------------------------
(* The adapter when the application connects the backends itself: connect()
   called on a backend directly (the caller awaits it before it connects
   another backend), selectWallet(), and disconnectAll() *)

NextTeardown ==
    \/ ~Queued /\ \E kind \in Kinds : SelectWallet(kind)
    \/ DisconnectAll
    \/ DisconnectAllResumes
    \/ \E k \in Kinds :
        \/ ~Queued /\ (\A h \in Kinds : Idle(h)) /\ Connect(k)
        \/ \E i \in 1..MaxTasks :
            \/ \E ans \in RequestAnswers :
                    ~Queued /\ RequestSettled(k, i, ans)
            \/ \E ans \in ListAnswers :
                    ~Queued /\ ListAccountsSettled(k, i, ans)
            \/ \E ans \in BalanceAnswers :
                    ~Queued /\ BalanceSettled(k, i, ans)
            \/ ~Queued /\ ConnectBalanceReturned(k, i)
            \/ \E ans \in NetworkAnswers :
                    ~Queued /\ NetworkSettled(k, i, ans)
            \/ ~Queued /\ ConnectNetworkReturned(k, i)

SpecTeardown == InitRegistry /\ [][NextTeardown]_vars

----------------------------------------------------------------------------
(* The lookup of a network by chain id, applied to the ids of the registered
   networks, their neighbours, and a range of small ids *)

MaxSmallId == 30

LookupIds ==
    (-2..MaxSmallId) \cup {1000, 1001, 1002, 8216, 8217, 8218, 999999}

\* getNetworkByChainId(chainId) is called and returns
LookupNetwork(chainId) ==
    /\ last' = [Internal EXCEPT !.op = "getNetworkByChainId", !.stage = "call",
                                !.done = TRUE,
                                !.answer = Some(Ok(chainId)),
                                !.ret = Some(getNetworkByChainId(chainId))]
    /\ UNCHANGED <<window, state, web3Provider, tasks, adapter>>

NextLookup == \E chainId \in LookupIds : LookupNetwork(chainId)

SpecLookup == Init /\ [][NextLookup]_vars

----------------------------------------------------------------------------
(* A backend that receives notifications faster than its provider answers:
   connect() awaited by its caller, then account-change and chain-change
   notifications on the Connected backend, each starting a query while the
   queries of earlier notifications are still pending *)

MaxHandlers == 2

HandlerRoom(k) == state[k].status = CONNECTED /\ Len(tasks[k]) < MaxHandlers

NextNotify ==
    \E k \in Kinds :
        \/ Idle(k) /\ Connect(k)
        \/ \E l \in NotifiedLists \ {<<>>} :
                HandlerRoom(k) /\ onAccountsChanged(k, l)
        \/ \E c \in NotifiedChains : HandlerRoom(k) /\ onChainChanged(k, c)
        \/ \E i \in 1..MaxHandlers :
            \/ \E ans \in RequestAnswers : RequestSettled(k, i, ans)
            \/ \E ans \in ListAnswers : ListAccountsSettled(k, i, ans)
            \/ \E ans \in BalanceAnswers : BalanceSettled(k, i, ans)
            \/ ConnectBalanceReturned(k, i)
            \/ \E ans \in NetworkAnswers : NetworkSettled(k, i, ans)
            \/ ConnectNetworkReturned(k, i)
            \/ AccountsHandlerThen(k, i)
            \/ ChainHandlerThen(k, i)

SpecNotify == Init /\ [][NextNotify]_vars

----------------------------------------------------------------------------
(* A backend whose connect() is called again while an earlier connect() is
   still suspended *)

MaxConnects == 2

NextRace ==
    \E k \in Kinds :
        \/ Len(tasks[k]) < MaxConnects /\ connect(k)
        \/ \E i \in 1..MaxConnects :
            \/ \E ans \in RequestAnswers : RequestSettled(k, i, ans)
            \/ \E ans \in ListAnswers : ListAccountsSettled(k, i, ans)
            \/ \E ans \in BalanceAnswers : BalanceSettled(k, i, ans)
            \/ ConnectBalanceReturned(k, i)
            \/ \E ans \in NetworkAnswers : NetworkSettled(k, i, ans)
            \/ ConnectNetworkReturned(k, i)

SpecRace == Init /\ [][NextRace]_vars

----------------------------------------------------------------------------
(* Properties *)

\* the step just taken ended a connect() call
ConnectEnded == last.op = "connect" /\ last.done

\* C1: in every reachable state of a backend, state.account is non-null only
\* when state.status is Connected.
C1_AccountOnlyWhenConnected ==
    \A k \in Kinds : state[k].account # Null => state[k].status = CONNECTED

\* C2: in every reachable state of a backend, status = Disconnected implies
\* account = null and network = null, also when a notification handler that
\* began while connected finishes its query after disconnect() ran.
C2_DisconnectedIsEmpty ==
    \A k \in Kinds :
        state[k].status = DISCONNECTED =>
            state[k].account = Null /\ state[k].network = Null

\* C3: in every reachable state of a backend, status = Connected implies
\* account is non-null.
C3_ConnectedHasAccount ==
    \A k \in Kinds : state[k].status = CONNECTED => state[k].account # Null

\* C3's case: on a Connected backend an accountsChanged handler whose
\* getAccount() gave null has run its then-callback.
C3_Witness ==
    /\ last.op = "accountsChanged" /\ last.stage = "accountSettled"
    /\ Val(last.answer).value = Null
    /\ state[last.k].status = CONNECTED

\* C4: in every reachable state of a backend, status = Error implies error
\* is non-null.
C4_ErrorHasMessage ==
    \A k \in Kinds : state[k].status = ERROR => state[k].error # Null

\* C4's case: a connect() that began with error = null has just failed.
C4_Witness ==
    /\ ConnectEnded /\ last.raised # Null /\ last.stage # "call"
    /\ state[last.k].status = ERROR
    /\ state[last.k].account = Null

RefusedByProvider ==
    \/ last.stage = "call" /\ ~isAvailable(last.k)
    \/ last.stage = "request" /\ ~Val(last.answer).ok
    \/ last.stage = "listAccounts"
        /\ (~Val(last.answer).ok \/ Len(Val(last.answer).value) = 0)

\* the balance query of the first account failed
BalanceQueryFailed ==
    /\ last.stage = "balanceSettled"
    /\ \E m \in {MsgRpc} : Val(last.answer).message = MsgBalanceFailed(m)

\* what holds when a connect() returns an Account
ConnectReturn ==
    LET account == Val(last.ret)
    IN  /\ last.ret # Null
        /\ account.address = AddressOf(last.listed[1])
        /\ state[last.k].status = CONNECTED
        /\ state[last.k].account = last.ret
        /\ state[last.k].error = Null
        /\ last.events = <<Event("connect", account)>>

\* C6 as stated: when the provider is available, grants the account request
\* and lists at least one account, a connect() that runs without
\* interference returns an Account whose address is the first listed
\* account, with status = Connected, state.account the returned Account,
\* error = null and exactly one connect event, carrying that Account.
C6_ConnectSucceeds ==
    /\ (last.op = "connect" /\ last.stage = "call" => last.events = <<>>)
    /\ (ConnectEnded =>
            IF last.raised # Null THEN RefusedByProvider ELSE ConnectReturn)

\* C6 amended: the same, when in addition the balance query for the first
\* listed account succeeds.
C6_ConnectSucceedsGivenBalance ==
    /\ (last.op = "connect" /\ last.stage = "call" => last.events = <<>>)
    /\ (ConnectEnded =>
            IF last.raised # Null
            THEN RefusedByProvider \/ BalanceQueryFailed
            ELSE ConnectReturn)

\* C6's case: a connect() run alone has returned the Account of the first of
\* two listed accounts (a signer object).
C6_Witness ==
    /\ ConnectEnded /\ last.raised = Null
    /\ Len(last.listed) = 2 /\ ~last.listed[1].isString
    /\ Val(last.ret).address = "0xB"

\* C7: when connect() on an available backend fails because the provider
\* rejects the account request or returns no accounts, status becomes Error
\* with state.error the failure message, an error event is emitted and the
\* failure is raised to the caller.
C7_ConnectFailureOnBothChannels ==
    LET rejected == last.stage = "request" /\ ~Val(last.answer).ok
        noAccounts == /\ last.stage = "listAccounts" /\ Val(last.answer).ok
                      /\ Len(Val(last.answer).value) = 0
        message == IF rejected THEN Val(last.answer).message ELSE MsgNoAccount
    IN  (last.op = "connect" /\ (rejected \/ noAccounts)) =>
            /\ last.done
            /\ state[last.k].status = ERROR
            /\ state[last.k].error = Some(message)
            /\ last.events = <<Event("error", message)>>
            /\ last.raised = Some(message)

\* C7's case: a re-connect from Connected has failed on an empty account list.
C7_Witness ==
    /\ ConnectEnded /\ last.stage = "listAccounts" /\ Val(last.answer).ok
    /\ last.raised = Some(MsgNoAccount)
    /\ state[last.k].account # Null

\* C8: if the query for the active network fails during connect(), connect()
\* transitions the backend to Error, emits an error event and raises the
\* failure to the caller; it does not end in Connected.
C8_NetworkFailureFailsConnect ==
    (ConnectEnded /\ last.stage = "networkSettled" /\ ~Val(last.answer).ok) =>
        /\ state[last.k].status = ERROR
        /\ last.raised # Null
        /\ \E i \in 1..Len(last.events) : last.events[i].name = "error"

\* C9: connect() on a backend whose isAvailable() is false fails with
\* NotInstalled and leaves the backend as it was: no transition, no provider
\* request, no event.
C9_UnavailableConnectIsRefused ==
    [][(last'.op = "connect" /\ last'.stage = "call" /\ ~isAvailable(last'.k)) =>
            /\ last'.done
            /\ last'.raised = Some(MsgNotInstalled(last'.k))
            /\ last'.calls = <<>> /\ last'.events = <<>>
            /\ state' = state /\ web3Provider' = web3Provider
            /\ tasks' = tasks]_vars

\* C9's case: connect() has just been refused on the Kaikas backend of a
\* browser whose window.klaytn lacks the Kaikas marker.
C9_Witness ==
    /\ last.op = "connect" /\ last.k = KAIKAS
    /\ last.raised = Some(MsgNotInstalled(KAIKAS))
    /\ window.klaytn # Null

\* C10: whenever a backend's status is Disconnected, getBalance() fails with
\* NotConnected without querying the provider.
C10_DisconnectedGetBalanceRefused ==
    (last.op = "getBalance" /\ last.stage = "call"
        /\ last.preStatus = DISCONNECTED) =>
        /\ last.done
        /\ last.raised = Some(MsgNotConnected)
        /\ last.calls = <<>>

\* C10's case: getBalance() has just been refused on a backend that a
\* disconnect() left Disconnected while its connect() is still in flight.
C10_Witness ==
    /\ last.op = "getBalance" /\ last.preStatus = DISCONNECTED
    /\ last.raised = Some(MsgNotConnected)
    /\ \E i \in 1..Len(tasks[last.k]) : tasks[last.k][i].op = "connect"

\* C11: getBalance() called without an address on a backend with an active
\* provider session whose account list is empty fails with the NoAccount
\* error, which the caller can tell apart from a failed balance query.
C11_EmptyListIsNoAccount ==
    (/\ last.op = "getBalance" /\ last.stage = "listAccounts"
     /\ Val(last.answer).ok /\ Len(Val(last.answer).value) = 0) =>
        /\ last.raised = Some(MsgNoAccount)
        /\ \A m \in {MsgRpc} : last.raised # Some(MsgBalanceFailed(m))

\* the calls that need a signer
SignerOps == {"sendTransaction", "signMessage"}

\* C12: sendTransaction() and signMessage() called while the backend has no
\* active provider session fail with NotConnected without obtaining a signer
\* or contacting the provider.
C12_NoSessionNoSigner ==
    [][(/\ last'.op \in SignerOps /\ last'.stage = "call"
        /\ web3Provider[last'.k] = Null) =>
            /\ last'.done
            /\ last'.raised = Some(MsgNotConnected)
            /\ last'.calls = <<>>
            /\ tasks' = tasks /\ web3Provider' = web3Provider]_vars

\* C12's case: sendTransaction() has just been refused on a backend that
\* shows Connected: a disconnect() overtook its connect(), which then finished.
C12_Witness ==
    /\ last.op = "sendTransaction" /\ last.stage = "call"
    /\ last.raised = Some(MsgNotConnected)
    /\ last.preStatus = CONNECTED

\* the methods of a sequence of requests
Methods(sent) == [j \in 1..Len(sent) |-> sent[j].method]

\* the requests a sendTransaction has sent when it waits at pc
SentAt(pc) ==
    CASE pc = "getSigner" -> <<"getSigner">>
      [] pc = "submit" -> <<"getSigner", "sendTransaction">>
      [] pc = "wait" -> <<"getSigner", "sendTransaction", "wait">>

Waiting(ts) == {j \in 1..Len(ts) : ts[j].op = "sendTransaction" /\ ts[j].pc = "wait"}

\* C13: sendTransaction() never returns a TransactionResult before the
\* receipt of the submitted transaction has been received: the order is always
\* obtain signer, submit, await receipt, return; while the receipt has not
\* arrived the call stays pending, and a submission or mining failure is
\* raised as TransactionFailed.
C13_ReturnsAfterReceipt ==
    /\ [](/\ \A k \in Kinds : \A i \in 1..Len(tasks[k]) :
                tasks[k][i].op = "sendTransaction" =>
                    Methods(tasks[k][i].sent) = SentAt(tasks[k][i].pc)
          /\ (last.op = "sendTransaction" /\ last.done /\ last.raised = Null
                /\ last.stage # "call") =>
                /\ last.ret # Null
                /\ last.stage = "wait" /\ Val(last.answer).ok
                /\ Methods(last.sent) = SentAt("wait")
                /\ Val(last.ret).hash \in TxHashes
          /\ (last.op = "sendTransaction" /\ last.done
                /\ last.stage \in {"submit", "wait"} /\ ~Val(last.answer).ok) =>
                last.raised = Some(MsgTxFailed(Val(last.answer).message)))
    /\ [][\A k \in Kinds :
            Cardinality(Waiting(tasks'[k])) < Cardinality(Waiting(tasks[k])) =>
                /\ last'.op = "sendTransaction" /\ last'.stage = "wait"
                /\ last'.k = k /\ last'.answer # Null /\ last'.done]_vars

\* C13's case: a sendTransaction() has returned the result of a mined
\* transaction on a backend that a disconnect() reset while it waited.
C13_Witness ==
    /\ last.op = "sendTransaction" /\ last.stage = "wait" /\ last.ret # Null
    /\ Val(last.ret).blockNumber = Some(7)
    /\ last.preStatus = DISCONNECTED

\* the calls that raise directly
DirectOps == {"getBalance", "sendTransaction", "signMessage", "switchNetwork"}

\* C14: a failing getBalance(), sendTransaction(), signMessage() or
\* switchNetwork() leaves the backend's WalletState (status, account, network,
\* error) exactly as it was before the call; in particular a failed
\* transaction on a Connected backend leaves it Connected.
C14_DirectFailuresKeepState ==
    [][/\ state' # state => last'.op \in {"connect", "disconnect"}
       /\ (last'.op \in DirectOps /\ last'.done /\ last'.raised # Null) =>
              state' = state]_vars

\* C14's case: on a Connected backend a sendTransaction() has failed because
\* the transaction reverted.
C14_Witness ==
    /\ last.op = "sendTransaction" /\ last.stage = "wait"
    /\ last.raised = Some(MsgTxFailed(MsgReverted))
    /\ state[last.k].status = CONNECTED /\ state[last.k].account # Null

\* C15: switchNetwork(chainId) with a chainId that is not in the
\* NetworkRegistry fails with UnsupportedNetwork before any request is sent to
\* the injected provider.
C15_UnregisteredChainRefused ==
    [][\A k \in Kinds : \A c \in SwitchChains :
          (getNetworkByChainId(c) = Null /\ SwitchNetwork(k, c)) =>
              /\ last'.done
              /\ last'.raised = Some(MsgUnsupportedNetwork(c))
              /\ last'.calls = <<>>
              /\ tasks' = tasks]_vars

\* the NetworkRegistry's entry for a registered chain
EntryOf(c) ==
    CHOOSE n \in {KAIA_NETWORKS[j] : j \in 1..Len(KAIA_NETWORKS)} : n.chainId = c

\* the add-chain request the provider should see for a registered chain
ExpectedAdd(c) ==
    [method |-> "wallet_addEthereumChain",
     params |-> [chainId |-> IF c = 1001 THEN "0x3e9" ELSE "0x2019",
                 chainName |-> EntryOf(c).name,
                 rpcUrls |-> <<EntryOf(c).rpcUrl>>,
                 blockExplorerUrls |-> Some(<<EntryOf(c).blockExplorerUrl>>)]]

ExpectedSwitch(c) ==
    [method |-> "wallet_switchEthereumChain",
     params |-> [chainId |-> IF c = 1001 THEN "0x3e9" ELSE "0x2019"]]

\* C16: switchNetwork(chainId) for a registered chain first sends a
\* switch-chain request for that chain; if that request fails with the
\* provider's unknown-chain code (4902) it then sends exactly one add-chain
\* request built from the NetworkRegistry entry for chainId; if the switch
\* request fails with any other error, that error is raised to the caller
\* unchanged and no add-chain request is sent; if the switch request succeeds
\* no add-chain request is sent.
C16_SwitchThenAddOnUnknownChain ==
    /\ [][\A k \in Kinds : \A c \in SwitchChains :
            (getNetworkByChainId(c) # Null /\ SwitchNetwork(k, c)) =>
                /\ ~last'.done
                /\ last'.calls = <<"wallet_switchEthereumChain">>
                /\ tasks'[k][Len(tasks'[k])].sent = <<ExpectedSwitch(c)>>]_vars
    /\ [](/\ \A k \in Kinds : \A i \in 1..Len(tasks[k]) :
                LET t == tasks[k][i]
                IN  /\ (t.op = "switchNetwork" /\ t.pc = "switch") =>
                            t.sent = <<ExpectedSwitch(t.chainId)>>
                    /\ (t.op = "switchNetwork" /\ t.pc = "add") =>
                            t.sent = <<ExpectedSwitch(t.chainId),
                                       ExpectedAdd(t.chainId)>>
          /\ (last.op = "switchNetwork" /\ last.stage = "switch") =>
                /\ Len(last.sent) = 1
                /\ Val(last.answer).ok => last.raised = Null
                /\ ~Val(last.answer).ok =>
                        /\ Val(last.answer).code # 4902
                        /\ last.raised = Some(Val(last.answer).message)
          /\ (last.op = "switchNetwork" /\ last.stage = "add") =>
                Len(last.sent) = 2)
    /\ [][\A k \in Kinds : \A i \in 1..Len(tasks[k]) :
            (/\ tasks[k][i].pc = "switch" /\ last'.op = "switchNetwork"
             /\ last'.stage = "switch" /\ last'.k = k
             /\ ~Val(last'.answer).ok) => Val(last'.answer).code # 4902]_vars

\* C17: when a Connected backend receives a native account-change
\* notification with an empty account list, the backend transitions to
\* Disconnected (account and network null) and emits a disconnect event; the
\* same disconnect path runs on a native provider disconnect notification.
C17_EmptyAccountsDisconnects ==
    LET s == state[last.k]
        left == s.status = DISCONNECTED /\ s.account = Null /\ s.network = Null
        emptied == /\ last.op = "accountsChanged" /\ last.stage = "call"
                   /\ last.events[1].arg = <<>>
    IN  /\ (emptied /\ last.preStatus = CONNECTED) =>
                /\ left
                /\ last.events = <<Event("accountsChanged", <<>>),
                                   Event("disconnect", Null)>>
        /\ (last.op = "providerDisconnect" /\ last.preStatus = CONNECTED) =>
                /\ left
                /\ last.events = <<Event("disconnect", Null)>>
        /\ (emptied \/ last.op = "providerDisconnect") =>
                web3Provider[last.k] = Null

\* C17's case: a Connected backend has just handled an account-change
\* notification with an empty list.
C17_Witness ==
    /\ last.op = "accountsChanged" /\ last.stage = "call"
    /\ last.events[1].arg = <<>>
    /\ last.preStatus = CONNECTED
    /\ Len(last.events) = 2

\* C18: getAvailableWallets() returns exactly the registered provider kinds
\* whose backend reports isAvailable() = true at call time, without
\* duplicates and in registration order (Kaikas before MetaMask) whatever the
\* availability pattern; an unregistered kind (WalletConnect) is never
\* returned.
C18_AvailableWalletsInOrder ==
    last.op = "getAvailableWallets" =>
        LET r == Val(last.ret)
        IN  /\ last.raised = Null
            /\ {r[j] : j \in 1..Len(r)} = {k \in Kinds : isAvailable(k)}
            /\ \A i, j \in 1..Len(r) : i # j => r[i] # r[j]
            /\ \A i, j \in 1..Len(r) :
                    (r[i] = KAIKAS /\ r[j] = METAMASK) => i < j
            /\ \A j \in 1..Len(r) : r[j] # WALLET_CONNECT

\* C18's case: getAvailableWallets() has answered in a browser with both
\* wallets.
C18_Witness ==
    /\ last.op = "getAvailableWallets"
    /\ Val(last.ret) = <<KAIKAS, METAMASK>>

\* C19: selectWallet(kind) fails with UnsupportedProvider when no backend is
\* registered for kind, and fails with Unavailable when the backend is
\* registered but its isAvailable() is false; in both failure cases the
\* registry's current reference keeps its previous value.
C19_SelectWalletFailures ==
    [][/\ (last'.op = "selectWallet" /\ last'.k \notin Kinds) =>
                /\ last'.raised = Some(MsgUnsupportedWallet(last'.k))
                /\ last'.ret = Null
                /\ adapter'.currentWallet = adapter.currentWallet
       /\ (/\ last'.op = "selectWallet" /\ last'.k \in Kinds
           /\ ~isAvailable(last'.k)) =>
                /\ last'.raised = Some(MsgUnavailable(last'.k))
                /\ last'.ret = Null
                /\ adapter'.currentWallet = adapter.currentWallet]_vars

\* C19's case: with a wallet selected, selectWallet() has just failed for a
\* registered kind whose wallet is not installed.
C19_Witness ==
    /\ last.op = "selectWallet" /\ last.k = METAMASK
    /\ last.raised = Some(MsgUnavailable(METAMASK))
    /\ adapter.currentWallet = Some(KAIKAS)

\* the adapter's calls that assign the current wallet
Selectors == {"selectWallet", "autoConnect", "disconnectAll"}

\* C20: a successful selectWallet(kind) returns the registered backend for
\* kind, and from then until the next successful selectWallet, autoConnect
\* selection or disconnectAll, getCurrentWallet() returns that same backend;
\* getCurrentWallet() is null on a fresh registry.
C20_CurrentWalletFollowsSelection ==
    /\ adapter.currentWallet = Null
    /\ [](last.op = "getCurrentWallet" =>
            Val(last.ret) = adapter.currentWallet)
    /\ [][/\ (last'.op = "selectWallet" /\ last'.raised = Null) =>
                /\ last'.k \in Kinds
                /\ last'.ret = Some(last'.k)
                /\ adapter'.currentWallet = Some(last'.k)
          /\ adapter'.currentWallet # adapter.currentWallet =>
                /\ last'.op \in Selectors
                /\ last'.raised = Null]_vars

\* C20's case: getCurrentWallet() has returned the MetaMask backend chosen by
\* selectWallet while the Kaikas backend, which autoConnect connected, is
\* Connected.
C20_Witness ==
    /\ last.op = "getCurrentWallet"
    /\ Val(last.ret) = Some(METAMASK)
    /\ state[KAIKAS].status = CONNECTED

\* the position of a kind in autoConnect's priority list
Rank(k) == PositionIn(priority, k)

\* the step just taken was autoConnect calling connect() on a backend
Attempted == last.op = "autoConnect" /\ ~last.done

\* C21: autoConnect() tries the available backends in the order Kaikas,
\* MetaMask, WalletConnect: its first connect() is on the first available
\* backend of that order, each later connect() is made when the connect() it
\* awaited has failed and is on the next available backend; it returns the
\* backend whose connect() succeeded, which is then Connected, and no step of
\* it raises.
C21_AutoConnectInPriorityOrder ==
    /\ [](last.op = "autoConnect" => last.raised = Null)
    /\ []((last.op = "connect" /\ last.awaited) =>
            /\ adapter.call # Null
            /\ Val(adapter.call).pc = "settled"
            /\ Val(adapter.call).k = last.k
            /\ Val(adapter.call).ok = (last.raised = Null))
    /\ [][ /\ Attempted' =>
               /\ isAvailable(last'.k)
               /\ tasks'[last'.k] # <<>>
               /\ IF adapter.call = Null
                  THEN \A h \in Kinds : Rank(h) < Rank(last'.k) => ~isAvailable(h)
                  ELSE /\ Val(adapter.call).pc = "settled"
                       /\ ~Val(adapter.call).ok
                       /\ Rank(Val(adapter.call).k) < Rank(last'.k)
                       /\ \A h \in Kinds :
                            (Rank(Val(adapter.call).k) < Rank(h)
                                /\ Rank(h) < Rank(last'.k)) => ~isAvailable(h)
           /\ (last'.op = "autoConnect" /\ last'.done /\ last'.ret # Some(Null)) =>
               /\ adapter.call # Null
               /\ Val(adapter.call).ok
               /\ last'.ret = Some(Some(Val(adapter.call).k))
               /\ state'[Val(adapter.call).k].status = CONNECTED ]_vars

\* autoConnect returned MetaMask after the connect() of Kaikas failed
C21_Witness ==
    /\ last.op = "autoConnect" /\ last.done
    /\ last.ret = Some(Some(METAMASK))
    /\ isAvailable(KAIKAS)
    /\ state[KAIKAS].status = ERROR
    /\ state[METAMASK].status = CONNECTED

\* the step just taken was autoConnect returning null
ReturnedNull ==
    /\ last.op = "autoConnect" /\ last.done
    /\ last.raised = Null /\ last.ret = Some(Null)

\* no available backend comes after k in autoConnect's priority list
NoneAfter(k) == \A h \in Kinds : Rank(k) < Rank(h) => ~isAvailable(h)

\* C22: autoConnect() called when no backend is available returns null in
\* that step, without a connect() call and without a change to a backend;
\* resumed after the failure of the last available backend's connect() it
\* returns null; in neither case it raises.
C22_AutoConnectReturnsNull ==
    [][ /\ (AutoConnect /\ Len(getAvailableWallets) = 0) =>
             /\ ReturnedNull'
             /\ last'.calls = <<>>
             /\ UNCHANGED <<state, web3Provider, tasks>>
        /\ (AutoConnectResumes /\ ~Val(adapter.call).ok
                /\ NoneAfter(Val(adapter.call).k)) =>
             /\ ReturnedNull'
             /\ UNCHANGED <<state, web3Provider, tasks>>
        /\ (last'.op = "autoConnect" /\ last'.done) => last'.raised = Null ]_vars

\* autoConnect returned null after the connect() of both wallets failed
C22_Witness ==
    /\ ReturnedNull
    /\ getAvailableWallets = Registered
    /\ \A k \in Kinds : state[k].status = ERROR

\* autoConnect returned null in a browser with no wallet
C22_WitnessNoneAvailable ==
    /\ ReturnedNull
    /\ getAvailableWallets = <<>>
    /\ \A k \in Kinds : state[k] = InitialState(k)

\* a disconnectAll() is suspended
Visiting == adapter.call # Null /\ Val(adapter.call).op = "disconnectAll"

\* C23: disconnectAll() disconnects each backend it finds Connected, in the
\* order of the wallets Map, also after a disconnect() that was rejected; a
\* backend it passed is not Connected for the rest of the call; when it
\* returns it has raised nothing, no backend is Connected, and there is no
\* current wallet.
C23_DisconnectAllBestEffort ==
    /\ [](Visiting =>
            \A j \in 1..PositionIn(Registered, Val(adapter.call).k) :
                state[Registered[j]].status # CONNECTED)
    /\ [][ /\ (last'.op = "disconnectAll" /\ ~last'.done) =>
                /\ state[last'.k].status = CONNECTED
                /\ state'[last'.k] = [InitialState(last'.k) EXCEPT
                                         !.provider = state[last'.k].provider]
                /\ web3Provider'[last'.k] = Null
           /\ (last'.op = "disconnectAll" /\ last'.done) =>
                /\ last'.raised = Null
                /\ adapter'.currentWallet = Null
                /\ adapter'.call = Null
                /\ \A k \in Kinds : state'[k].status # CONNECTED
                /\ \A k \in Kinds :
                     state[k].status = DISCONNECTED => state'[k] = state[k]
           /\ Visiting =>
                \A k \in Kinds :
                    state[k].status = DISCONNECTED => state'[k] = state[k] ]_vars

\* disconnectAll has disconnected MetaMask after the disconnect() of Kaikas
\* was rejected, with a current wallet still to clear
C23_Witness ==
    /\ last.op = "disconnectAll" /\ ~last.done /\ last.k = METAMASK
    /\ last.answer = Some(Fail(MsgListener))
    /\ last.events = <<Event("disconnect", Null)>>
    /\ state[KAIKAS].status = DISCONNECTED
    /\ state[METAMASK].status = DISCONNECTED
    /\ adapter.currentWallet # Null

\* C24: on a new adapter every entry of getWalletStates() is Disconnected; at
\* any time getWalletStates() returns, in the step of the call, one entry for
\* Kaikas and one for MetaMask, each the state of that backend, sends nothing
\* to a provider and changes nothing.
C24_WalletStatesSnapshot ==
    /\ DOMAIN getWalletStates = {KAIKAS, METAMASK}
    /\ \A k \in {KAIKAS, METAMASK} : getWalletStates[k].status = DISCONNECTED
    /\ [][ last'.op = "getWalletStates" =>
             /\ last'.done /\ last'.raised = Null
             /\ DOMAIN Val(last'.ret) = {KAIKAS, METAMASK}
             /\ \A k \in {KAIKAS, METAMASK} : Val(last'.ret)[k] = state[k]
             /\ last'.calls = <<>> /\ last'.events = <<>>
             /\ UNCHANGED <<window, state, web3Provider, tasks, adapter>> ]_vars

\* getWalletStates returned after autoConnect connected MetaMask, the connect()
\* of Kaikas having failed
C24_Witness ==
    /\ last.op = "getWalletStates"
    /\ Val(last.ret)[KAIKAS].status = ERROR
    /\ Val(last.ret)[METAMASK].status = CONNECTED
    /\ Val(last.ret)[METAMASK].account # Null

\* the adapter's calls that read or select
Readers ==
    {"selectWallet", "getCurrentWallet", "getAvailableWallets", "getWalletStates"}

\* C28: a step of selectWallet(), getCurrentWallet(), getAvailableWallets() or
\* getWalletStates() changes no backend; a step of the adapter that changes a
\* backend is autoConnect() calling that backend's connect() or disconnectAll()
\* calling its disconnect(), and it changes that backend only; a step that
\* changes the current wallet changes no other backend than the one
\* autoConnect() selected and connects.
C28_AdapterMutatesOnlyThroughBackends ==
    [][ /\ last'.op \in Readers => UNCHANGED <<state, web3Provider, tasks>>
        /\ (last'.stage = "adapter" /\ state' # state) =>
             /\ \A h \in Kinds : h # last'.k => state'[h] = state[h]
             /\ \/ /\ last'.op = "autoConnect"
                   /\ state'[last'.k] =
                        connectStart(last'.k, state[last'.k], TRUE).state
                   /\ last'.calls = <<"eth_requestAccounts">>
                \/ /\ last'.op = "disconnectAll"
                   /\ state'[last'.k] = disconnect(state[last'.k]).state
        /\ adapter'.currentWallet # adapter.currentWallet =>
             /\ last'.stage = "adapter"
             /\ \A h \in Kinds :
                    state'[h] # state[h] =>
                        /\ last'.op = "autoConnect"
                        /\ adapter'.currentWallet = Some(h) ]_vars

\* selectWallet moved the current wallet from the Connected Kaikas to MetaMask
C28_Witness ==
    /\ last.op = "selectWallet" /\ last.k = METAMASK
    /\ adapter.currentWallet = Some(METAMASK)
    /\ state[KAIKAS].status = CONNECTED
    /\ state[METAMASK].status = DISCONNECTED

\* getAccount() and getNetwork(), called directly
Queries == {"getAccount", "getNetwork"}

\* C25: no step of getAccount() or getNetwork() raises or changes the
\* backend's state; called without a session they return null at once; they
\* return null when the query they made was rejected, getAccount() when the
\* account list is empty, getNetwork() when the chain is neither 8217 nor 1001.
C25_QueriesDegradeToNull ==
    [][ last'.op \in Queries =>
          /\ last'.raised = Null
          /\ state' = state /\ web3Provider' = web3Provider
          /\ last'.done => last'.ret # Null
          /\ (last'.stage = "call" /\ web3Provider[last'.k] = Null) =>
                last'.done /\ last'.ret = Some(Null)
          /\ (last'.done /\ last'.stage # "call") =>
                /\ ~Val(last'.answer).ok => last'.ret = Some(Null)
                /\ (last'.stage = "listAccounts" /\ Val(last'.answer).ok
                        /\ Len(Val(last'.answer).value) = 0) =>
                      last'.ret = Some(Null)
                /\ (last'.stage = "network" /\ Val(last'.answer).ok
                        /\ Val(last'.answer).value \notin {8217, 1001}) =>
                      last'.ret = Some(Null) ]_vars

\* getNetwork returned null on a Connected backend whose chain is not registered
C25_Witness ==
    /\ last.op = "getNetwork" /\ last.done /\ last.stage = "network"
    /\ Val(last.answer).ok /\ Val(last.answer).value = 1
    /\ last.ret = Some(Null)
    /\ state[last.k].status = CONNECTED

\* getAccount returned null because the account list was empty
C25_WitnessEmptyList ==
    /\ last.op = "getAccount" /\ last.done /\ last.stage = "listAccounts"
    /\ Val(last.answer).ok /\ Len(Val(last.answer).value) = 0
    /\ last.ret = Some(Null)

\* getAccount returned an account
C25_WitnessAccount ==
    /\ last.op = "getAccount" /\ last.done /\ last.stage = "balance"
    /\ last.ret # Some(Null)

\* the chain id the lookup was called with, and what it returned
LookedUp == Val(last.answer).value
Found == Val(last.ret)

\* C26: getNetworkByChainId returns the entry "Kaia Mainnet" for 8217, the
\* entry "Kaia Testnet Kairos" for 1001, each with the chain id asked for, and
\* null for every other id; the call changes nothing.
C26_RegistryLookup ==
    /\ [](last.op = "getNetworkByChainId" =>
            /\ last.raised = Null
            /\ LookedUp = 8217 =>
                 Found # Null /\ Val(Found).name = "Kaia Mainnet"
            /\ LookedUp = 1001 =>
                 Found # Null /\ Val(Found).name = "Kaia Testnet Kairos"
            /\ Found # Null => Val(Found).chainId = LookedUp
            /\ LookedUp \notin {8217, 1001} => Found = Null)
    /\ [][last'.op = "getNetworkByChainId" =>
             UNCHANGED <<window, state, web3Provider, tasks, adapter>>]_vars

\* the lookup of 1001 returned the testnet entry
C26_Witness ==
    /\ last.op = "getNetworkByChainId"
    /\ LookedUp = 1001
    /\ Found # Null
    /\ Val(Found).rpcUrl = "https://public-en-kairos.node.kaia.io"

\* the step just taken ran disconnect() on backend k
Disconnected(k) ==
    /\ last.k = k
    /\ \E i \in 1..Len(last.events) : last.events[i].name = "disconnect"

\* C27: a backend's state.error changes only in the step that ends a failed
\* connect(), where it becomes the message that connect() raises, in the step
\* that ends a successful connect(), where it becomes null, and in a step
\* that runs disconnect(), where it becomes null; every other step of a call
\* or of a notification leaves it as it was.
C27_ErrorKeptUntilCleared ==
    [][ \A k \in Kinds :
          state'[k].error # state[k].error =>
             \/ /\ last'.op = "connect" /\ last'.done /\ last'.k = k
                /\ last'.raised # Null
                /\ state'[k].error = last'.raised
             \/ /\ last'.op = "connect" /\ last'.done /\ last'.k = k
                /\ last'.raised = Null
                /\ state'[k].error = Null
                /\ state'[k].status = CONNECTED
             \/ /\ Disconnected(k)'
                /\ state'[k].error = Null ]_vars

\* a chain-change notification was handled on a backend whose connect() had
\* been rejected by the user, and the message is still reported
C27_Witness ==
    /\ last.op = "chainChanged" /\ last.done
    /\ state[last.k].status = ERROR
    /\ state[last.k].error = Some(MsgUserRejected)

\* C29: the step that emits chainChanged, or accountsChanged with a list that
\* is not empty, is the step in which the handler of the notification has
\* stored the network, respectively the account, that it fetched again: the
\* event is emitted after the query, with the new value in the state.
C29_StoredBeforeEmitted ==
    [][ \A i \in 1..Len(last'.events) :
          LET e == last'.events[i]
          IN  /\ e.name = "chainChanged" =>
                    /\ last'.done /\ last'.stage = "networkSettled"
                    /\ state'[last'.k].network = Val(last'.answer).value
              /\ (e.name = "accountsChanged" /\ Len(e.arg) > 0) =>
                    /\ last'.done /\ last'.stage = "accountSettled" ]_vars

\* an older handler of the same notification is still waiting, before task i
OlderPending(k, i, op) == \E j \in 1..(i - 1) : tasks[k][j].op = op

\* C30: the handlers of two account-change notifications, and of two
\* chain-change notifications, store what they fetched in the order in which
\* the notifications arrived: a handler stores its value (the network, or an
\* account that is not null) only when no handler of an earlier notification
\* of the same kind is still waiting for its query.
C30_UpdatesInArrivalOrder ==
    [][ \A k \in Kinds : \A i \in 1..MaxHandlers :
          /\ ChainHandlerThen(k, i) => ~OlderPending(k, i, "chainChanged")
          /\ (AccountsHandlerThen(k, i) /\ tasks[k][i].account # Null) =>
                ~OlderPending(k, i, "accountsChanged")
      ]_vars

\* C31: a connect() called on an available backend while another connect()
\* is suspended starts its own handshake; every connect() that ends stores
\* its own outcome, whatever the other one did: a success stores Connected
\* with its Account and emits its own connect event, a failure stores Error
\* with its message, also when the status was Connected by the other call.
C31_ConcurrentConnectsBothRun ==
    [][ \A k \in Kinds :
          /\ (connect(k) /\ isAvailable(k)) =>
                /\ Len(tasks'[k]) = Len(tasks[k]) + 1
                /\ last'.calls = <<"eth_requestAccounts">>
          /\ (last'.op = "connect" /\ last'.k = k /\ last'.done
                  /\ last'.stage # "call") =>
                IF last'.raised = Null
                THEN /\ state'[k].status = CONNECTED
                     /\ state'[k].account = last'.ret
                     /\ last'.events = <<Event("connect", Val(last'.ret))>>
                ELSE /\ state'[k].status = ERROR
                     /\ state'[k].error = last'.raised
                     /\ last'.events = <<Event("error", Val(last'.raised))>> ]_vars

\* of two concurrent connect() calls one has returned an Account, and the
\* other has then failed: the backend is in Error, with the Account
C31_Witness ==
    /\ last.op = "connect" /\ last.done /\ last.raised # Null
    /\ last.preStatus = CONNECTED
    /\ state[last.k].status = ERROR
    /\ state[last.k].account # Null
    /\ tasks[last.k] = <<>>

\* the second of two concurrent connect() calls has returned, after the first
C31_WitnessBothReturned ==
    /\ last.op = "connect" /\ last.done /\ last.raised = Null
    /\ last.preStatus = CONNECTED
    /\ tasks[last.k] = <<>>

\* C32: disconnect() leaves every suspended call of the backend suspended, and
\* a connect() that ends stores Connected or Error whatever the status was
\* before, Disconnected included: no new connect() is needed for a backend
\* that disconnect() reset to become Connected or Error.
C32_DisconnectDoesNotCancel ==
    [][ \A k \in Kinds :
          /\ (last'.op = "disconnect" /\ last'.k = k) =>
                /\ tasks'[k] = tasks[k]
                /\ state'[k].status = DISCONNECTED
          /\ (last'.op = "connect" /\ last'.k = k /\ last'.done
                  /\ last'.stage # "call") =>
                state'[k].status =
                    IF last'.raised = Null THEN CONNECTED ELSE ERROR ]_vars

\* a connect() has returned on a backend that disconnect() had reset while
\* the connect() was suspended
C32_Witness ==
    /\ last.op = "connect" /\ last.done /\ last.raised = Null
    /\ last.preStatus = DISCONNECTED
    /\ state[last.k].status = CONNECTED

\* a connect() has failed on a backend that disconnect() had reset
C32_WitnessError ==
    /\ last.op = "connect" /\ last.done /\ last.raised # Null
    /\ last.stage # "call"
    /\ last.preStatus = DISCONNECTED
    /\ state[last.k].status = ERROR

\* C33: a step that changes a backend's status changes it to Connecting only
\* when it is the call of connect(), to Connected or to Error only from
\* Connecting, and to Disconnected only by running disconnect().
C33_LifecycleEdges ==
    [][ \A k \in Kinds :
          state'[k].status # state[k].status =>
             /\ state'[k].status = CONNECTING =>
                    /\ last'.op \in {"connect", "autoConnect"}
                    /\ last'.k = k /\ ~last'.done
             /\ state'[k].status \in {CONNECTED, ERROR} =>
                    state[k].status = CONNECTING
             /\ state'[k].status = DISCONNECTED => Disconnected(k)' ]_vars

\* C34: a backend whose status is Connected has a provider session
\* (this.web3Provider is set), and a getBalance() called on it is not refused
\* for want of one.
C34_ConnectedHasSession ==
    /\ \A k \in Kinds : state[k].status = CONNECTED => web3Provider[k] # Null
    /\ (last.op = "getBalance" /\ last.stage = "call"
            /\ last.raised = Some(MsgNotConnected)) =>
          last.preStatus # CONNECTED

\* C35: the steps of a connect() that fails write only status and error: the
\* call sets status to Connecting, the steps between its awaits change
\* nothing, and the step in which it fails sets status to Error and error to
\* the message it raises; account, network and provider stay as they are.
C35_FailedConnectKeepsAccount ==
    [][ \A k \in Kinds :
          /\ (last'.op = "connect" /\ last'.k = k /\ last'.stage = "call") =>
                state'[k] = IF last'.done THEN state[k]
                            ELSE [state[k] EXCEPT !.status = CONNECTING]
          /\ last'.op = "internal" => state'[k] = state[k]
          /\ (last'.op = "connect" /\ last'.k = k /\ last'.done
                  /\ last'.stage # "call" /\ last'.raised # Null) =>
                state'[k] = [state[k] EXCEPT !.status = ERROR,
                                             !.error = last'.raised] ]_vars

\* a re-connect from Connected has failed in the balance query: the account
\* and the network of the earlier connect() are still in the state
C35_Witness ==
    /\ last.op = "connect" /\ last.done /\ last.stage = "balanceSettled"
    /\ last.raised = Some(MsgBalanceFailed(MsgRpc))
    /\ state[last.k].status = ERROR
    /\ state[last.k].account # Null
    /\ state[last.k].network # Null

\* C36: whenever a backend emits connect, disconnect or error, the state a
\* listener reads with getState() while the event is emitted already has the
\* transition: for connect, Connected with the emitted account; for
\* disconnect, Disconnected with account and network null; for error, Error
\* with the emitted message in state.error.
C36_EventsAfterState ==
    LET Own(e) == e.name \in {"connect", "disconnect", "error"}
        own == SelectSeq(last.events, Own)
    IN
    /\ Len(last.seen) = Len(own)
    /\ \A n \in 1..Len(own) :
          LET e == own[n]
              s == last.seen[n]
          IN  /\ e.name = "connect"
                    => s.status = CONNECTED /\ s.account = Some(e.arg)
              /\ e.name = "disconnect"
                    => /\ s.status = DISCONNECTED
                       /\ s.account = Null /\ s.network = Null
              /\ e.name = "error"
                    => s.status = ERROR /\ s.error = Some(e.arg)

\* a connect that failed emitted error: the listener reads Error and the
\* message, not the Connecting state of before the step
C36_Witness ==
    /\ last.op = "connect" /\ last.done /\ last.raised # Null
    /\ last.preStatus = CONNECTING
    /\ last.events = <<Event("error", Val(last.raised))>>
    /\ last.seen[1].status = ERROR
    /\ last.seen[1] = state[last.k]

\* a connect that returned emitted connect with the account the state has
C36_WitnessConnect ==
    /\ last.op = "connect" /\ last.done /\ last.ret # Null
    /\ last.events = <<Event("connect", Val(last.ret))>>
    /\ last.seen[1].status = CONNECTED
    /\ last.preStatus # CONNECTED

\* an empty accountsChanged on a Connected backend: the disconnect event is
\* emitted with the Disconnected state
C36_WitnessDisconnect ==
    /\ last.op = "accountsChanged" /\ Len(last.events) = 2
    /\ last.events[2].name = "disconnect"
    /\ last.preStatus = CONNECTED
    /\ last.seen = <<state[last.k]>>
    /\ state[last.k].status = DISCONNECTED

\* C37: when autoConnect() returns a backend w, the current wallet is w; when
\* it returns null after it selected a candidate, the current wallet is the
\* last candidate it selected; when it returns null because no backend is
\* available, the current wallet is the one of before the call.
C37_CurrentWalletAfterAutoConnect ==
    [][ last'.op = "autoConnect" /\ last'.done
          => /\ last'.raised = Null /\ last'.ret # Null
             /\ Val(last'.ret) # Null
                   => adapter'.currentWallet = Some(Val(Val(last'.ret)))
             /\ Val(last'.ret) = Null /\ adapter.call # Null
                   => adapter'.currentWallet = Some(Val(adapter.call).k)
             /\ Val(last'.ret) = Null /\ adapter.call = Null
                   => /\ Len(getAvailableWallets) = 0
                      /\ adapter'.currentWallet = adapter.currentWallet ]_vars

\* autoConnect() has returned null after its last candidate failed, and the
\* current wallet is that candidate, which is in Error
C37_Witness ==
    /\ last.op = "autoConnect" /\ last.done /\ last.ret = Some(Null)
    /\ adapter.currentWallet = Some(METAMASK)
    /\ state[METAMASK].status = ERROR
    /\ state[KAIKAS].status = ERROR

\* autoConnect() has returned the second candidate after the first failed
C37_WitnessReturned ==
    /\ last.op = "autoConnect" /\ last.done /\ last.ret = Some(Some(METAMASK))
    /\ adapter.currentWallet = Some(METAMASK)
    /\ state[KAIKAS].status = ERROR

\* the candidates autoConnect() has tried and seen fail when its suspended
\* call is call: the available kinds before call.k in the priority list, and
\* call.k when its connect() has rejected
FailedCandidates(call) ==
    {k \in Kinds :
        /\ Includes(call.available, k)
        /\ \/ PositionIn(priority, k) < PositionIn(priority, call.k)
           \/ k = call.k /\ call.pc = "settled" /\ ~call.ok}

\* C38: a candidate whose connect() fails during autoConnect() goes to Error
\* with the failure message in state.error and an error event; no later step
\* of the call changes its state; and when autoConnect() returns, with a
\* lower-priority backend or with null, getWalletStates() reports every
\* failed candidate in Error with its message.
C38_FailedCandidateStaysInError ==
    [][ /\ last'.op = "connect" /\ last'.done /\ last'.awaited
                /\ last'.raised # Null
          => /\ state'[last'.k].status = ERROR
             /\ state'[last'.k].error = last'.raised
             /\ last'.events = <<Event("error", Val(last'.raised))>>
        /\ adapter.call # Null
          => \A k \in FailedCandidates(Val(adapter.call)) :
                /\ state[k].status = ERROR /\ state[k].error # Null
                /\ state'[k] = state[k]
                /\ last'.op = "autoConnect" /\ last'.done
                      => getWalletStates'[k] = state[k] ]_vars

\* after autoConnect() returned the second candidate, getWalletStates()
\* reports the first in Error with its message and the second Connected
C38_Witness ==
    /\ last.op = "getWalletStates" /\ adapter.call = Null
    /\ adapter.currentWallet = Some(METAMASK)
    /\ Val(last.ret)[KAIKAS].status = ERROR
    /\ Val(last.ret)[KAIKAS].error # Null
    /\ Val(last.ret)[METAMASK].status = CONNECTED

\* C39: a step of disconnectAll() leaves untouched every backend whose status
\* is not Connected: its state (Error keeps Error and its message), its
\* provider and its suspended connect() stay as they are.
C39_DisconnectAllSkipsOthers ==
    [][ last'.op = "disconnectAll"
          => \A k \in Kinds :
                state[k].status # CONNECTED
                  => /\ state'[k] = state[k]
                     /\ web3Provider'[k] = web3Provider[k]
                     /\ tasks'[k] = tasks[k] ]_vars

\* disconnectAll() has disconnected the first backend and returned, and
\* getWalletStates() reports the second still Connecting, its connect()
\* suspended
C39_Witness ==
    /\ last.op = "disconnectAll" /\ last.done /\ last.answer = Some(Ok(0))
    /\ state[KAIKAS].status = DISCONNECTED
    /\ getWalletStates[METAMASK].status = CONNECTING
    /\ tasks[METAMASK] # <<>>

\* disconnectAll() has disconnected the second backend and returned, and
\* getWalletStates() reports the first still in Error with its message
C39_WitnessError ==
    /\ last.op = "disconnectAll" /\ last.done /\ last.answer = Some(Ok(0))
    /\ state[METAMASK].status = DISCONNECTED
    /\ getWalletStates[KAIKAS].status = ERROR
    /\ getWalletStates[KAIKAS].error # Null

\* C40: no step of switchNetwork() changes the backend's state or its RPC
\* client, whether the switch succeeds, continues with the add request or
\* fails; and with the injected provider present and a registered chain the
\* call sends wallet_switchEthereumChain whatever the status is and whether
\* or not there is a session.
C40_SwitchNetworkKeepsState ==
    [][ \A k \in Kinds :
          /\ \A c \in SwitchChains :
                SwitchNetwork(k, c)
                  => /\ state' = state /\ web3Provider' = web3Provider
                     /\ window.defined /\ getProvider(k) # Null
                            /\ getNetworkByChainId(c) # Null
                          => /\ ~last'.done
                             /\ last'.calls = <<"wallet_switchEthereumChain">>
                             /\ tasks'[k][Len(tasks'[k])].sent
                                    = <<SwitchRequest(c)>>
          /\ \A i \in 1..MaxTasks :
                /\ \A ans \in SwitchAnswers :
                      SwitchSettled(k, i, ans)
                        => state' = state /\ web3Provider' = web3Provider
                /\ \A ans \in AddAnswers :
                      AddSettled(k, i, ans)
                        => state' = state /\ web3Provider' = web3Provider ]_vars

\* a switch to the testnet has succeeded on a Connected backend, and
\* state.network is still the network connect() stored
C40_Witness ==
    /\ last.op = "switchNetwork" /\ last.done /\ last.raised = Null
    /\ last.stage = "switch"
    /\ last.sent = <<SwitchRequest(1001)>>
    /\ state[last.k].status = CONNECTED
    /\ state[last.k].network = getNetworkByChainId(8217)

\* a switch has succeeded on a backend that never connected: no session,
\* status Disconnected
C40_WitnessNoSession ==
    /\ last.op = "switchNetwork" /\ last.done /\ last.raised = Null
    /\ last.sent = <<SwitchRequest(1001)>>
    /\ state[last.k].status = DISCONNECTED
    /\ web3Provider[last.k] = Null

\* a switch has been sent on a backend in Error
C40_WitnessError ==
    /\ last.op = "switchNetwork" /\ ~last.done
    /\ last.calls = <<"wallet_switchEthereumChain">>
    /\ state[last.k].status = ERROR
====
